---------------------------- MODULE Spec2Model ----------------------------
(***************************************************************************)
(* Model of the Coinbase Pro WebSocket client:                             *)
(*   coinbase-client/src/web_socket/client.rs   facade, controller, worker *)
(*   coinbase-client/src/web_socket/handler.rs  composite handler          *)
(* The transport (tungstenite connect / read_message / write_message) and  *)
(* the application's handler are the environment: their results are drawn  *)
(* nondeterministically from the outcomes the worker distinguishes.        *)
(***************************************************************************)
EXTENDS Integers, Sequences, FiniteSets, TLC

(***************************************************************************)
(* Bounds of the model.                                                    *)
(***************************************************************************)
\* Controller subscribe/unsubscribe calls made in one behaviour of Spec.
MaxCalls == 3
\* Sinks held by a composite handler.
MaxSinks == 3
\* Controller calls made in one behaviour of SpecFrames.
MaxFrameCalls == 1
MaxTimedCalls == 2
MaxChannelCalls == 2

(***************************************************************************)
(* Program constants.                                                      *)
(***************************************************************************)
\* crossbeam::bounded(10): capacity of the command queue.
QueueCapacity == 10
\* connect(): Duration::from_millis(500) between attempts, in 250 ms ticks.
ConnectIntervalTicks == 2
\* Elapsed times are kept up to "more than 500 ms" (3 ticks of 250 ms).
ElapsedCap == ConnectIntervalTicks + 1

Controllers == {"k1", "k2"}

ProductUniverse == {"BTC-USD", "ETH-USD"}

\* Option<Vec<String>>: None, or Some(list).
None == [some |-> FALSE, ids |-> <<>>]
Some(ids) == [some |-> TRUE, ids |-> ids]

\* struct Channel { name, product_ids }
Channel(name, opt) == [name |-> name, product_ids |-> opt]

\* enum Channels
Channels == {"Heartbeat", "Status", "Ticker", "Level2", "Matches", "User", "Full"}

Ticker == Channel("Ticker", None)
TickerBTC == Channel("Ticker", Some(<<"BTC-USD">>))
Level2 == Channel("Level2", None)

\* The (product_ids, channels) arguments the application passes to
\* subscribe and unsubscribe: the two share a product id, the second lists
\* one twice and names a restricted ticker channel beside the first's
\* unrestricted one.
CallArgs ==
  { [product_ids |-> <<"BTC-USD">>, channels |-> <<Ticker>>],
    [product_ids |-> <<"ETH-USD", "BTC-USD", "ETH-USD">>, channels |-> <<TickerBTC, Level2>>] }

\* enum WebSocketWorkerMessages
SubscribeMsg(p, c) == [type |-> "Subscribe", product_ids |-> p, channels |-> c]
UnsubscribeMsg(p, c) == [type |-> "Unsubscribe", product_ids |-> p, channels |-> c]
StopMsg == [type |-> "Stop", product_ids |-> <<>>, channels |-> <<>>]
\* What a poll that found no command reports (TryRecvError).
EmptyMsg == [type |-> "Empty", product_ids |-> <<>>, channels |-> <<>>]
DisconnectedMsg == [type |-> "Disconnected", product_ids |-> <<>>, channels |-> <<>>]
NoMsg == [type |-> "None", product_ids |-> <<>>, channels |-> <<>>]

Range(s) == { s[i] : i \in 1..Len(s) }

\* The elements of a vector with how often each occurs: a Vec's content with
\* the order left out.
Content(vec) == [x \in Range(vec) |-> Cardinality({ i \in 1..Len(vec) : vec[i] = x })]
\* The content of a vector that lists each element of a set once.
Once(set) == [x \in set |-> 1]


(***************************************************************************)
(* Transport and handler outcomes.                                         *)
(***************************************************************************)
\* tungstenite::Error as the worker classifies it; "Other" is every variant
\* that is not ConnectionClosed, AlreadyClosed or Io.
TransportErrors == {"ConnectionClosed", "AlreadyClosed", "Io", "Other"}
SendOutcomes == {"Ok"} \cup TransportErrors
\* tungstenite::connect: success, ConnectionClosed, or any other error.
ConnectOutcomes == {"Ok", "ConnectionClosed", "Other"}
\* Result<(), Terminate> of a handler callback.
HandlerResults == {"Ok", "Terminate"}

\* The "type" tags of ResponseMessages (rename_all = "lowercase").
ResponseTags ==
  {"subscriptions", "heartbeat", "status", "ticker", "snapshot", "l2update",
   "match", "received", "open", "change", "done", "active", "error",
   "last_match"}

\* What read_message returns: Ok(Message) or Err(error).
Frame(kind, tag, body, code) == [kind |-> kind, tag |-> tag, body |-> body, code |-> code]
NoFrame == Frame("None", "", "", 0)
\* Text frames: a decodable one per tag, and the three undecodable shapes
\* (not JSON at all, an unknown tag, a known tag with a malformed body).
TextFrames ==
  { Frame("Text", t, "ok", 0) : t \in ResponseTags }
    \cup { Frame("Text", "", "not_json", 0),
           Frame("Text", "bogus", "ok", 0),
           Frame("Text", "ticker", "malformed", 0) }
\* Close(Option<CloseFrame>): code 0 stands for None.
CloseFrames == { Frame("Close", "", "", c) : c \in {0, 1000, 1002} }
ControlFrames == { Frame(k, "", "", 0) : k \in {"Ping", "Pong", "Binary"} }
ErrorReads == { Frame("Err", e, "", 0) : e \in TransportErrors }
ReadResults == TextFrames \cup CloseFrames \cup ControlFrames \cup ErrorReads

VARIABLES
  \* CoinbaseWebSocketClient (the facade)
  state,              \* ClientState
  client,             \* where the owner of the facade value is: "live", inside
                      \* stop or wait, or "gone" (the value was consumed/dropped)
  join_handle,        \* TRUE when join_handle is Some
  apiRet,             \* how stop()/wait()/start() last ended
  \* the bounded command channel and the Controllers
  queue,              \* commands in the channel, oldest first
  ctl,                \* per Controller: "none", "idle", "blocked", "dropped"
  ctlMsg,             \* the command a blocked Controller is trying to send
  \* CoinBaseWebSocketClientWorker
  pc,                 \* position of the worker thread
  ctx,                \* which caller of connect(): "bootstrap" or "reconnect"
  product_ids,        \* HashSet<String>
  channels,           \* HashSet<Channel>
  opt_socket,         \* 0 for None, else the identity of the socket held
  last_connect_time,  \* -1 for None, else ticks elapsed since that instant
  \* history
  ev,                 \* what the last step did
  firstSent,          \* the first write_message call made on the socket held
  sinceAttempt,       \* -1, or ticks elapsed since the last connect attempt
  ncalls,             \* Controller calls made
  spawned,            \* worker threads spawned
  \* composite handler (handler.rs), exercised on its own
  handlers,           \* sinks of the composite: how many it holds
  hcalls,             \* sinks invoked by the last dispatched call, in order
  hfn,                \* the call last dispatched
  hres,               \* what each sink returned, and the composite's result
  \* Channel's Serialize / Deserialize (common.rs), exercised on its own
  codec               \* a Channel value or a wire form, and what became of it

vars ==
  << state, client, join_handle, apiRet, queue, ctl, ctlMsg, pc, ctx,
     product_ids, channels, opt_socket, last_connect_time, ev, firstSent,
     sinceAttempt, ncalls, spawned, handlers, hcalls, hfn, hres, codec >>

facadeVars == << state, client, join_handle, apiRet >>
workerVars == << pc, ctx, product_ids, channels, opt_socket, last_connect_time >>
timeVars == << last_connect_time, sinceAttempt >>
handlerVars == << handlers, hcalls, hfn, hres >>

\* A write_message call: the envelope, its outcome, and the accumulated sets
\* the worker held when it made the call.
SendRec(env, outcome, ids, chs) ==
  [env |-> env, outcome |-> outcome, ids |-> ids, chs |-> chs]
NoEnv == [type |-> "none", product_ids |-> << >>, channels |-> << >>]
NoSend == SendRec(NoEnv, "none", {}, {})

\* What one step did: the operation, the command polled, the frame read, the
\* write_message calls made and the handler callbacks invoked.
Event(op, cmd, frame, writes, calls) ==
  [op |-> op, cmd |-> cmd, frame |-> frame, writes |-> writes, calls |-> calls]
AppEvent(op) == Event(op, NoMsg, NoFrame, <<>>, <<>>)
\* A handler callback invoked, and what it returned.
Call(fn, res) == [fn |-> fn, res |-> res]

(***************************************************************************)
(* The command channel: crossbeam::bounded(10).  The facade holds a Sender *)
(* and a Receiver for as long as the facade value exists; every Controller *)
(* holds a Sender clone, the worker thread a Receiver clone.               *)
(***************************************************************************)
\* Variant: a join returns although the thread still runs.
JoinWithoutExit == pc # "unspawned"

WorkerAlive == pc \notin {"unspawned", "returned", "panicked"}
WorkerExited == pc \in {"returned", "panicked"}
\* Variant: the facade keeps no Receiver of its own.
OnlyWorkerReceives == WorkerAlive

ReceiversAlive == client # "gone" \/ WorkerAlive
SendersAlive == client # "gone" \/ \E c \in Controllers : ctl[c] \in {"idle", "blocked"}

\* Variant: a send completes whether or not the queue has room.
SendUnbounded == IF ~ReceiversAlive THEN "Err" ELSE "Ok"

\* Sender::send: fails once every Receiver is gone, completes when there is
\* room, and otherwise blocks the caller.
SendOutcome ==
  IF ~ReceiversAlive THEN "Err"
  ELSE IF Len(queue) < QueueCapacity THEN "Ok"
  ELSE "Block"

\* Variant: the newest command is received first.
TryRecvNewest ==
  IF queue # <<>> THEN queue[Len(queue)]
  ELSE IF SendersAlive THEN EmptyMsg
  ELSE DisconnectedMsg

\* Receiver::try_recv: the oldest command, else Empty while a Sender exists,
\* else Disconnected.
TryRecv ==
  IF queue # <<>> THEN Head(queue)
  ELSE IF SendersAlive THEN EmptyMsg
  ELSE DisconnectedMsg

(***************************************************************************)
(* Initial state: CoinbaseWebSocketClient::new.                            *)
(***************************************************************************)
InitClient ==
  /\ state = "NotInitialized"
  /\ client = "live"
  /\ join_handle = FALSE
  /\ apiRet = "none"
  /\ queue = <<>>
  /\ ctl = [c \in Controllers |-> "none"]
  /\ ctlMsg = [c \in Controllers |-> NoMsg]
  /\ pc = "unspawned"
  /\ ctx = "bootstrap"
  /\ product_ids = {}
  /\ channels = {}
  /\ opt_socket = 0
  /\ last_connect_time = -1
  /\ ev = AppEvent("new")
  /\ firstSent = NoSend
  /\ sinceAttempt = -1
  /\ ncalls = 0
  /\ spawned = 0

InitHandler ==
  /\ handlers = 0
  /\ hcalls = <<>>
  /\ hfn = "none"
  /\ hres = [results |-> <<>>, result |-> "none"]

\* No Channel is being encoded or decoded.
NoWire == [kind |-> "none", str |-> "", keys |-> <<>>, ids |-> <<>>]
NoResult == [ok |-> FALSE, value |-> Channel("", None)]
InitCodec ==
  codec = [stage |-> "idle", value |-> Channel("", None), wire |-> NoWire, result |-> NoResult]

Init == InitClient /\ InitHandler /\ InitCodec

(***************************************************************************)
(* CoinbaseWebSocketClient: start, controller, stop, wait.                 *)
(***************************************************************************)
\* Variants: start spawns whatever the state, stop and wait never take their
\* no-op path.
start_always(st) == TRUE
never_noop(st) == FALSE

\* start's check: self.state != NotInitialized panics.
can_start(st) == st = "NotInitialized"

\* stop / wait: the states of their first match, in which they only log.
is_noop(st) == st \in {"NotInitialized", "Stopped"}

\* start(handler): panics unless NotInitialized; the panic unwinds with the
\* lock guard held, which poisons the facade's mutex.
Start ==
  /\ client \in {"live", "poisoned"}
  /\ IF client = "poisoned" \/ ~can_start(state)
     THEN /\ client' = "poisoned"
          /\ apiRet' = IF client = "poisoned" THEN "lock_panicked" ELSE "start_panicked"
          /\ UNCHANGED << state, join_handle, workerVars, spawned >>
     ELSE /\ pc' = "await"
          /\ ctx' = "bootstrap"
          /\ product_ids' = {}
          /\ channels' = {}
          /\ opt_socket' = 0
          /\ last_connect_time' = -1
          /\ spawned' = spawned + 1
          /\ join_handle' = TRUE
          /\ state' = "Running"
          /\ apiRet' = "started"
          /\ UNCHANGED client
  /\ ev' = AppEvent("app")
  /\ UNCHANGED << queue, ctl, ctlMsg, firstSent, sinceAttempt, ncalls, handlerVars, codec >>

\* controller(): a new Controller with a clone of the facade's Sender.
NewController(c) ==
  /\ client \in {"live", "poisoned"}
  /\ ctl[c] = "none"
  /\ ctl' = [ctl EXCEPT ![c] = "idle"]
  /\ ev' = AppEvent("app")
  /\ UNCHANGED << facadeVars, queue, ctlMsg, workerVars, firstSent, sinceAttempt, ncalls, spawned, handlerVars, codec >>

\* A Controller goes out of scope: its Sender is dropped.
DropController(c) ==
  /\ ctl[c] = "idle"
  /\ ctl' = [ctl EXCEPT ![c] = "dropped"]
  /\ ev' = AppEvent("app")
  /\ UNCHANGED << facadeVars, queue, ctlMsg, workerVars, firstSent, sinceAttempt, ncalls, spawned, handlerVars, codec >>

\* The facade value goes out of scope without stop() or wait(): the worker
\* thread is detached, the facade's Sender and Receiver are dropped.
DropClient ==
  /\ client \in {"live", "poisoned"}
  /\ client' = "gone"
  /\ ev' = AppEvent("app")
  /\ UNCHANGED << state, join_handle, apiRet, queue, ctl, ctlMsg, workerVars,
                  firstSent, sinceAttempt, ncalls, spawned, handlerVars, codec >>

\* Controller::send_message: the send's error is logged and swallowed.
send_message(c, msg) ==
  /\ ctl[c] = "idle"
  /\ CASE SendOutcome = "Ok" ->
            /\ queue' = Append(queue, msg)
            /\ UNCHANGED << ctl, ctlMsg >>
       [] SendOutcome = "Err" ->
            UNCHANGED << queue, ctl, ctlMsg >>
       [] OTHER ->
            /\ ctl' = [ctl EXCEPT ![c] = "blocked"]
            /\ ctlMsg' = [ctlMsg EXCEPT ![c] = msg]
            /\ UNCHANGED queue
  /\ ncalls' = IF ncalls < MaxCalls THEN ncalls + 1 ELSE ncalls
  /\ ev' = AppEvent("app")
  /\ UNCHANGED << facadeVars, workerVars, firstSent, sinceAttempt,
                  spawned, handlerVars, codec >>

\* Controller::subscribe / Controller::unsubscribe
subscribe(c, p, ch) == send_message(c, SubscribeMsg(p, ch))
unsubscribe(c, p, ch) == send_message(c, UnsubscribeMsg(p, ch))

\* A Controller blocked in send: it completes when the worker has made room,
\* or fails once every Receiver is gone.
ControllerResume(c) ==
  /\ ctl[c] = "blocked"
  /\ SendOutcome # "Block"
  /\ queue' = IF SendOutcome = "Ok" THEN Append(queue, ctlMsg[c]) ELSE queue
  /\ ctl' = [ctl EXCEPT ![c] = "idle"]
  /\ ctlMsg' = [ctlMsg EXCEPT ![c] = NoMsg]
  /\ ev' = AppEvent("app")
  /\ UNCHANGED << facadeVars, workerVars, firstSent, sinceAttempt, ncalls, spawned, handlerVars, codec >>

\* stop(self) or wait(self) on a facade whose mutex a panicking start has
\* poisoned: lock().unwrap() panics, and the unwinding drops the facade.
LockPanic ==
  /\ client = "poisoned"
  /\ client' = "gone"
  /\ apiRet' = "lock_panicked"
  /\ ev' = AppEvent("app")
  /\ UNCHANGED << state, join_handle, queue, ctl, ctlMsg, workerVars, firstSent,
                  sinceAttempt, ncalls, spawned, handlerVars, codec >>

\* stop(self), up to the send of Stop: a no-op unless Running.
StopCall ==
  /\ client = "live"
  /\ IF is_noop(state)
     THEN /\ client' = "gone"
          /\ apiRet' = "noop"
          /\ UNCHANGED queue
     ELSE /\ apiRet' = "stopping"
          /\ CASE SendOutcome = "Ok" ->
                    queue' = Append(queue, StopMsg) /\ client' = "stop_join"
               [] SendOutcome = "Err" ->
                    UNCHANGED queue /\ client' = "stop_join"
               [] OTHER ->
                    UNCHANGED queue /\ client' = "stop_send"
  /\ ev' = AppEvent("app")
  /\ UNCHANGED << state, join_handle, ctl, ctlMsg, workerVars, firstSent,
                  sinceAttempt, ncalls, spawned, handlerVars, codec >>

\* stop(self) blocked in sender.send(Stop) on a full queue.
StopSend ==
  /\ client = "stop_send"
  /\ SendOutcome # "Block"
  /\ queue' = IF SendOutcome = "Ok" THEN Append(queue, StopMsg) ELSE queue
  /\ client' = "stop_join"
  /\ ev' = AppEvent("app")
  /\ UNCHANGED << state, join_handle, apiRet, ctl, ctlMsg, workerVars, firstSent,
                  sinceAttempt, ncalls, spawned, handlerVars, codec >>

\* stop(self): join_handle.take().unwrap().join().expect(..), then Stopped.
\* The join returns when the worker thread has exited; expect panics when
\* the worker thread panicked.
StopJoin ==
  /\ client = "stop_join"
  /\ WorkerExited
  /\ join_handle' = FALSE
  /\ client' = "gone"
  /\ IF pc = "panicked"
     THEN apiRet' = "stop_panicked" /\ UNCHANGED state
     ELSE apiRet' = "stopped" /\ state' = "Stopped"
  /\ ev' = AppEvent("app")
  /\ UNCHANGED << queue, ctl, ctlMsg, workerVars, firstSent, sinceAttempt, ncalls, spawned, handlerVars, codec >>

\* wait(self), up to the join: a no-op unless Running; no Stop is sent.
WaitCall ==
  /\ client = "live"
  /\ IF is_noop(state)
     THEN /\ client' = "gone"
          /\ apiRet' = "noop"
          /\ UNCHANGED << state, join_handle >>
     ELSE /\ join_handle' = FALSE
          /\ state' = "Stopped"
          /\ client' = "wait_join"
          /\ apiRet' = "waiting"
  /\ ev' = AppEvent("app")
  /\ UNCHANGED << queue, ctl, ctlMsg, workerVars, firstSent, sinceAttempt, ncalls, spawned, handlerVars, codec >>

\* wait(self): let _ = join_handle.join().
WaitJoin ==
  /\ client = "wait_join"
  /\ WorkerExited
  /\ client' = "gone"
  /\ apiRet' = "waited"
  /\ ev' = AppEvent("app")
  /\ UNCHANGED << state, join_handle, queue, ctl, ctlMsg, workerVars, firstSent,
                  sinceAttempt, ncalls, spawned, handlerVars, codec >>

(***************************************************************************)
(* CoinBaseWebSocketClientWorker: pure parts.                              *)
(***************************************************************************)
\* Variants of the operators below that behave otherwise than the code: a
\* command's vectors replace the set, an Unsubscribe clears it.
append_replacing(set, vec) == Range(vec)
remove_everything(set, vec) == {}

\* append_subscriptions: HashSet::extend with the command's vectors.
append_subscriptions(set, vec) == set \cup Range(vec)

\* remove_subscriptions: HashSet::remove of every element of the vector.
remove_subscriptions(set, vec) == set \ Range(vec)

\* RequestMessages as handed to write_message: the tag and the content of
\* the product_ids and channels vectors (an envelope fixes no order: the
\* Subscribe vectors come from iterating a HashSet).
Envelope(type, p, c) == [type |-> type, product_ids |-> p, channels |-> c]

\* Variant: with nothing to subscribe to, no Subscribe envelope is built.
subscribe_request_nonempty(ids, chs) ==
  IF ids = {} /\ chs = {} THEN NoEnv ELSE Envelope("subscribe", Once(ids), Once(chs))

\* subscribe(): Vec::from_iter of each HashSet (every element once), wrapped
\* in SubscribeRequest::new.
subscribe_request(ids, chs) == Envelope("subscribe", Once(ids), Once(chs))

\* unsubscribe(product_ids, channels): UnsubscribeRequest::new of the
\* command's own vectors.
unsubscribe_request(p, c) == Envelope("unsubscribe", Content(p), Content(c))

\* Variant: an I/O-layer error is terminal.
handle_ws_error_io_terminal(error) ==
  CASE error = "ConnectionClosed" -> "Terminal"
    [] error = "AlreadyClosed" -> "Reconnect"
    [] error = "Io" -> "Terminal"
    [] OTHER -> "Ok"

\* Variant: an unclassified error asks for a reconnect.
handle_ws_error_other_reconnects(error) ==
  CASE error = "ConnectionClosed" -> "Terminal"
    [] error = "AlreadyClosed" -> "Reconnect"
    [] error = "Io" -> "Reconnect"
    [] OTHER -> "Reconnect"

\* handle_ws_error
handle_ws_error(error) ==
  CASE error = "ConnectionClosed" -> "Terminal"
    [] error = "AlreadyClosed" -> "Reconnect"
    [] error = "Io" -> "Reconnect"
    [] OTHER -> "Ok"

\* send_request: the result of write_message, errors through handle_ws_error.
send_result(outcome) == IF outcome = "Ok" THEN "Ok" ELSE handle_ws_error(outcome)

\* serde_json::from_str::<ResponseMessages>: the variant's tag, or "" when
\* the text does not decode.
decode(frame) ==
  IF frame.body = "ok" /\ frame.tag \in ResponseTags THEN frame.tag ELSE ""

\* handle_message's match: the handler method each variant is routed to.
callback_of(tag) ==
  CASE tag = "subscriptions" -> "on_subscriptions"
    [] tag = "heartbeat" -> "on_heartbeat"
    [] tag = "status" -> "on_status"
    [] tag = "ticker" -> "on_ticker"
    [] tag = "snapshot" -> "on_snapshot"
    [] tag = "l2update" -> "on_l2_update"
    [] tag = "match" -> "on_match"
    [] tag = "received" -> "on_received"
    [] tag = "open" -> "on_open"
    [] tag = "change" -> "on_change"
    [] tag = "done" -> "on_done"
    [] tag = "active" -> "on_active"
    [] tag = "last_match" -> "on_last_match"
    [] tag = "error" -> "on_error"

\* handle_message: the callbacks invoked for a text frame, h being what the
\* handler returns.
handle_message_calls(frame, h) ==
  IF decode(frame) = "" THEN <<>> ELSE << Call(callback_of(decode(frame)), h) >>

\* Variant: a text that does not decode drops the connection.
handle_message_strict(frame, h) ==
  IF decode(frame) = "" THEN "Reconnect"
  ELSE IF h = "Terminate" THEN "Terminal" ELSE "Ok"

\* handle_message: an undecodable text is ignored; a callback's Terminate is
\* mapped to Terminal.
handle_message(frame, h) ==
  IF decode(frame) = "" THEN "Ok"
  ELSE IF h = "Terminate" THEN "Terminal" ELSE "Ok"

\* Variant: a frame that is neither Text nor Close drops the connection.
handle_ws_message_text_only(frame, h) ==
  CASE frame.kind = "Text" -> handle_message(frame, h)
    [] OTHER -> "Reconnect"

\* handle_ws_message
handle_ws_message(frame, h) ==
  CASE frame.kind = "Text" -> handle_message(frame, h)
    [] frame.kind = "Close" -> "Reconnect"
    [] OTHER -> "Ok"

\* consume_socket: what a returned read_message leads to.
consume_socket(frame, h) ==
  IF frame.kind = "Err" THEN handle_ws_error(frame.tag)
  ELSE handle_ws_message(frame, h)

\* Variant: a read that ends the worker is followed by the handler's close.
consume_socket_calls_closing(frame, h) ==
  LET calls == IF frame.kind = "Text" THEN handle_message_calls(frame, h) ELSE <<>> IN
  IF consume_socket(frame, h) = "Terminal" THEN Append(calls, Call("close", "Ok")) ELSE calls

\* The callbacks a returned read_message invokes.
consume_socket_calls(frame, h) ==
  IF frame.kind = "Text" THEN handle_message_calls(frame, h) ELSE <<>>

\* Variant: a Terminal result makes the main loop reconnect.
after_step_retry(res) ==
  CASE res = "Ok" -> "step"
    [] res = "Reconnect" -> "connect"
    [] res = "Terminal" -> "connect"

\* Variant: a Terminal result is ignored, the main loop goes on.
after_step_continue(res) ==
  CASE res = "Ok" -> "step"
    [] res = "Reconnect" -> "connect"
    [] res = "Terminal" -> "step"

\* run(): where the main loop goes after step() returned res.
after_step(res) ==
  CASE res = "Ok" -> "step"
    [] res = "Reconnect" -> "connect"
    [] res = "Terminal" -> "returned"

\* Variant: a failed re-subscribe of a reconnect is followed by another
\* reconnect.
after_subscribe_retry(context, res) ==
  IF res = "Ok" THEN (IF context = "bootstrap" THEN "initialize" ELSE "step")
  ELSE IF context = "reconnect" THEN "connect"
  ELSE "returned"

\* run() / wait_until_initial_connection: where the worker goes after
\* connect().and_then(subscribe) sent the Subscribe envelope with result res.
after_subscribe(context, res) ==
  IF res # "Ok" THEN "returned"
  ELSE IF context = "bootstrap" THEN "initialize"
  ELSE "step"

\* connect(): whether the 500 ms since last_connect_time have passed.
can_try_to_connect(last) == last = -1 \/ last > ConnectIntervalTicks

\* An elapsed time one tick later (kept up to ElapsedCap).
Later(t) == IF t = -1 \/ t >= ElapsedCap THEN t ELSE t + 1

(***************************************************************************)
(* CoinBaseWebSocketClientWorker: the thread, one blocking point per step. *)
(***************************************************************************)
\* The worker value is dropped when its thread exits: the socket goes too.
SocketAt(p, sock) == IF p \in {"returned", "panicked"} THEN 0 ELSE sock

\* The identity of a newly connected socket: another one than the socket it
\* replaces.
FreshSocket(old) == IF old = 1 THEN 2 ELSE 1

\* wait_until_initial_connection(): where the loop goes after one poll
\* that returned a message of this type.  Stop is `return Ok(())`: run() goes
\* on as if the connection existed.
after_poll_unsubscribe_connects(type) ==
  CASE type \in {"Subscribe", "Unsubscribe"} -> "connect"
    [] type = "Stop" -> "initialize"
    [] type = "Empty" -> "await"
    [] type = "Disconnected" -> "returned"

after_poll_keeps_waiting(type) ==
  CASE type = "Subscribe" -> "connect"
    [] type = "Stop" -> "initialize"
    [] type \in {"Unsubscribe", "Empty", "Disconnected"} -> "await"

after_poll(type) ==
  CASE type = "Subscribe" -> "connect"
    [] type = "Unsubscribe" -> "await"
    [] type = "Stop" -> "initialize"
    [] type = "Empty" -> "await"
    [] type = "Disconnected" -> "returned"

\* connect(): where its loop goes after a transport connect with outcome o.
after_connect_gives_up(o) ==
  CASE o = "Ok" -> "subscribe"
    [] OTHER -> "returned"

after_connect(o) ==
  CASE o = "Ok" -> "subscribe"
    [] o = "ConnectionClosed" -> "returned"
    [] OTHER -> "connect"

\* wait_until_initial_connection: one iteration of its polling loop.
PollAwait ==
  /\ pc = "await"
  /\ LET msg == TryRecv IN
     /\ ev' = Event("poll_await", msg, NoFrame, <<>>, <<>>)
     /\ queue' = IF queue # <<>> THEN Tail(queue) ELSE queue
     /\ CASE msg.type = "Subscribe" ->
               /\ product_ids' = append_subscriptions(product_ids, msg.product_ids)
               /\ channels' = append_subscriptions(channels, msg.channels)
               /\ pc' = after_poll(msg.type)
               /\ ctx' = "bootstrap"
          [] OTHER ->
               /\ pc' = after_poll(msg.type)
               /\ UNCHANGED << ctx, product_ids, channels >>
  /\ UNCHANGED << facadeVars, ctl, ctlMsg, opt_socket, last_connect_time, firstSent,
                  sinceAttempt, ncalls, spawned, handlerVars, codec >>

\* connect(): one iteration of its loop, a transport connect with outcome o
\* when the interval has passed, else a 250 ms sleep.
ConnectStep(o) ==
  /\ pc = "connect"
  /\ IF can_try_to_connect(last_connect_time)
     THEN /\ sinceAttempt' = 0
          /\ ev' = Event("connect", NoMsg, Frame("Connect", o, "", sinceAttempt), <<>>, <<>>)
          /\ pc' = after_connect(o)
          /\ CASE o = "Ok" ->
                    /\ opt_socket' = FreshSocket(opt_socket)
                    /\ firstSent' = NoSend
                    /\ UNCHANGED last_connect_time
               [] o = "ConnectionClosed" ->
                    /\ opt_socket' = 0
                    /\ UNCHANGED << firstSent, last_connect_time >>
               [] OTHER ->
                    /\ last_connect_time' = 0
                    /\ UNCHANGED << opt_socket, firstSent >>
     ELSE /\ o = "Ok"
          /\ ev' = Event("sleep", NoMsg, NoFrame, <<>>, <<>>)
          /\ last_connect_time' = Later(last_connect_time)
          /\ sinceAttempt' = Later(sinceAttempt)
          /\ UNCHANGED << pc, opt_socket, firstSent >>
  /\ UNCHANGED << facadeVars, queue, ctl, ctlMsg, ctx, product_ids, channels,
                  ncalls, spawned, handlerVars, codec >>

\* Time passes while the worker thread runs.
Tick ==
  /\ WorkerAlive
  /\ << Later(last_connect_time), Later(sinceAttempt) >> # << last_connect_time, sinceAttempt >>
  /\ last_connect_time' = Later(last_connect_time)
  /\ sinceAttempt' = Later(sinceAttempt)
  /\ ev' = AppEvent("tick")
  /\ UNCHANGED << facadeVars, queue, ctl, ctlMsg, pc, ctx, product_ids, channels,
                  opt_socket, firstSent, ncalls, spawned, handlerVars, codec >>

\* connect().and_then(|_| self.subscribe()): the Subscribe envelope sent
\* right after a successful connect, at bootstrap and at reconnect; o is the
\* outcome of write_message.
SubscribeSend(o) ==
  /\ pc = "subscribe"
  /\ LET w == SendRec(subscribe_request(product_ids, channels), o, product_ids, channels) IN
       /\ ev' = Event("subscribe", NoMsg, NoFrame, << w >>, <<>>)
       /\ firstSent' = IF firstSent = NoSend THEN w ELSE firstSent
  /\ pc' = after_subscribe(ctx, send_result(o))
  /\ opt_socket' = SocketAt(pc', opt_socket)
  /\ UNCHANGED << facadeVars, queue, ctl, ctlMsg, ctx, product_ids, channels,
                  last_connect_time, sinceAttempt, ncalls, spawned, handlerVars, codec >>

\* run(): handler.initialize(), returning h.
Initialize(h) ==
  /\ pc = "initialize"
  /\ ev' = Event("initialize", NoMsg, NoFrame, <<>>, << Call("initialize", h) >>)
  /\ pc' = IF h = "Terminate" THEN "returned" ELSE "step"
  /\ opt_socket' = SocketAt(pc', opt_socket)
  /\ UNCHANGED << facadeVars, queue, ctl, ctlMsg, ctx, product_ids, channels,
                  last_connect_time, firstSent, sinceAttempt, ncalls, spawned,
                  handlerVars, codec >>

\* Variant: an Unsubscribe removes every stored channel that has the name
\* of a channel it lists, whatever the product_ids restriction of either.
StepCommandByName(o) ==
  /\ pc = "step"
  /\ queue # <<>>
  /\ LET msg == Head(queue) IN
     /\ queue' = Tail(queue)
     /\ CASE msg.type = "Subscribe" ->
               /\ product_ids' = append_subscriptions(product_ids, msg.product_ids)
               /\ channels' = append_subscriptions(channels, msg.channels)
               /\ IF opt_socket = 0
                  THEN /\ o = "Ok"
                       /\ pc' = "panicked"
                       /\ ev' = Event("step", msg, NoFrame, <<>>, <<>>)
                       /\ UNCHANGED firstSent
                  ELSE /\ pc' = after_step(send_result(o))
                       /\ LET w == SendRec(subscribe_request(product_ids', channels'), o,
                                           product_ids', channels') IN
                            /\ ev' = Event("step", msg, NoFrame, << w >>, <<>>)
                            /\ firstSent' = IF firstSent = NoSend THEN w ELSE firstSent
          [] msg.type = "Unsubscribe" ->
               /\ product_ids' = remove_subscriptions(product_ids, msg.product_ids)
               /\ channels' = { c \in channels : \A k \in 1..Len(msg.channels) :
                                 msg.channels[k].name # c.name }
               /\ IF opt_socket = 0
                  THEN /\ o = "Ok"
                       /\ pc' = "panicked"
                       /\ ev' = Event("step", msg, NoFrame, <<>>, <<>>)
                       /\ UNCHANGED firstSent
                  ELSE /\ pc' = after_step(send_result(o))
                       /\ LET w == SendRec(unsubscribe_request(msg.product_ids, msg.channels), o,
                                           product_ids', channels') IN
                            /\ ev' = Event("step", msg, NoFrame, << w >>, <<>>)
                            /\ firstSent' = IF firstSent = NoSend THEN w ELSE firstSent
          [] OTHER ->
               \* Stop: return Err(Terminal)
               /\ o = "Ok"
               /\ pc' = after_step("Terminal")
               /\ ev' = Event("step", msg, NoFrame, <<>>, <<>>)
               /\ UNCHANGED << product_ids, channels, firstSent >>
  /\ ctx' = IF pc' = "connect" THEN "reconnect" ELSE ctx
  /\ opt_socket' = SocketAt(pc', opt_socket)
  /\ UNCHANGED << facadeVars, ctl, ctlMsg, last_connect_time, sinceAttempt,
                  ncalls, spawned, handlerVars, codec >>

\* step() when try_recv yields a command; o is the outcome of the
\* write_message the command leads to.  send_request unwraps opt_socket.
StepCommand(o) ==
  /\ pc = "step"
  /\ queue # <<>>
  /\ LET msg == Head(queue) IN
     /\ queue' = Tail(queue)
     /\ CASE msg.type = "Subscribe" ->
               /\ product_ids' = append_subscriptions(product_ids, msg.product_ids)
               /\ channels' = append_subscriptions(channels, msg.channels)
               /\ IF opt_socket = 0
                  THEN /\ o = "Ok"
                       /\ pc' = "panicked"
                       /\ ev' = Event("step", msg, NoFrame, <<>>, <<>>)
                       /\ UNCHANGED firstSent
                  ELSE /\ pc' = after_step(send_result(o))
                       /\ LET w == SendRec(subscribe_request(product_ids', channels'), o,
                                           product_ids', channels') IN
                            /\ ev' = Event("step", msg, NoFrame, << w >>, <<>>)
                            /\ firstSent' = IF firstSent = NoSend THEN w ELSE firstSent
          [] msg.type = "Unsubscribe" ->
               /\ product_ids' = remove_subscriptions(product_ids, msg.product_ids)
               /\ channels' = remove_subscriptions(channels, msg.channels)
               /\ IF opt_socket = 0
                  THEN /\ o = "Ok"
                       /\ pc' = "panicked"
                       /\ ev' = Event("step", msg, NoFrame, <<>>, <<>>)
                       /\ UNCHANGED firstSent
                  ELSE /\ pc' = after_step(send_result(o))
                       /\ LET w == SendRec(unsubscribe_request(msg.product_ids, msg.channels), o,
                                           product_ids', channels') IN
                            /\ ev' = Event("step", msg, NoFrame, << w >>, <<>>)
                            /\ firstSent' = IF firstSent = NoSend THEN w ELSE firstSent
          [] OTHER ->
               \* Stop: return Err(Terminal)
               /\ o = "Ok"
               /\ pc' = after_step("Terminal")
               /\ ev' = Event("step", msg, NoFrame, <<>>, <<>>)
               /\ UNCHANGED << product_ids, channels, firstSent >>
  /\ ctx' = IF pc' = "connect" THEN "reconnect" ELSE ctx
  /\ opt_socket' = SocketAt(pc', opt_socket)
  /\ UNCHANGED << facadeVars, ctl, ctlMsg, last_connect_time, sinceAttempt,
                  ncalls, spawned, handlerVars, codec >>

\* Variant: step() starts the blocking read without looking at what the
\* poll of the queue returned.
StepIdleEager ==
  /\ pc = "step"
  /\ ev' = Event("step", EmptyMsg, NoFrame, <<>>, <<>>)
  /\ pc' = IF opt_socket = 0 THEN "panicked" ELSE "read"
  /\ opt_socket' = SocketAt(pc', opt_socket)
  /\ UNCHANGED << facadeVars, queue, ctl, ctlMsg, ctx, product_ids, channels,
                  last_connect_time, firstSent, sinceAttempt, ncalls, spawned,
                  handlerVars, codec >>

\* step() when try_recv yields no command: Empty starts the blocking read
\* (consume_socket unwraps opt_socket), Disconnected is terminal.
StepIdle ==
  /\ pc = "step"
  /\ queue = <<>>
  /\ ev' = Event("step", TryRecv, NoFrame, <<>>, <<>>)
  /\ pc' = IF TryRecv.type = "Disconnected" THEN "returned"
           ELSE IF opt_socket = 0 THEN "panicked"
           ELSE "read"
  /\ opt_socket' = SocketAt(pc', opt_socket)
  /\ UNCHANGED << facadeVars, queue, ctl, ctlMsg, ctx, product_ids, channels,
                  last_connect_time, firstSent, sinceAttempt, ncalls, spawned,
                  handlerVars, codec >>

\* Variant: a read that makes the worker reconnect forgets the accumulated
\* subscriptions.
ReadResetting(frame, h) ==
  /\ pc = "read"
  /\ ev' = Event("read", NoMsg, frame, <<>>, consume_socket_calls(frame, h))
  /\ pc' = after_step(consume_socket(frame, h))
  /\ ctx' = IF pc' = "connect" THEN "reconnect" ELSE ctx
  /\ product_ids' = IF pc' = "connect" THEN {} ELSE product_ids
  /\ channels' = IF pc' = "connect" THEN {} ELSE channels
  /\ opt_socket' = SocketAt(pc', opt_socket)
  /\ UNCHANGED << facadeVars, queue, ctl, ctlMsg, last_connect_time, firstSent,
                  sinceAttempt, ncalls, spawned, handlerVars, codec >>

\* consume_socket: the blocking read_message returns frame (a message or an
\* error); h is what the handler returns if a callback is invoked.
Read(frame, h) ==
  /\ pc = "read"
  /\ ev' = Event("read", NoMsg, frame, <<>>, consume_socket_calls(frame, h))
  /\ pc' = after_step(consume_socket(frame, h))
  /\ ctx' = IF pc' = "connect" THEN "reconnect" ELSE ctx
  /\ opt_socket' = SocketAt(pc', opt_socket)
  /\ UNCHANGED << facadeVars, queue, ctl, ctlMsg, product_ids, channels,
                  last_connect_time, firstSent, sinceAttempt, ncalls, spawned,
                  handlerVars, codec >>

(***************************************************************************)
(* handler.rs: CompositeCoinBaseWebSocketMessageHandler.                   *)
(***************************************************************************)
\* The methods of trait CoinBaseWebSocketMessageHandler.
HandlerMethods ==
  {"initialize", "on_subscriptions", "on_heartbeat", "on_status", "on_ticker",
   "on_snapshot", "on_l2_update", "on_match", "on_received", "on_open",
   "on_change", "on_done", "on_active", "on_last_match", "on_error", "close"}

\* compose_visitors!: the loop over self.handlers.iter_mut() from sink i on;
\* results[i] is what sink i returns, acc the sinks invoked so far and the
\* errors pushed so far.
RECURSIVE visit_from(_, _, _)
visit_from(i, results, acc) ==
  IF i > Len(results) THEN acc
  ELSE visit_from(i + 1, results,
         [invoked |-> Append(acc.invoked, i),
          errors |-> IF results[i] = "Terminate" THEN Append(acc.errors, i) ELSE acc.errors])

\* Variant: the loop stops at the first sink that returns Terminate.
compose_short_circuit(results) ==
  LET errs == { i \in 1..Len(results) : results[i] = "Terminate" }
      last == IF errs = {} THEN Len(results)
              ELSE CHOOSE i \in errs : \A j \in errs : i <= j
  IN [invoked |-> [i \in 1..last |-> i],
      result |-> IF errs # {} THEN "Terminate" ELSE "Ok"]

\* compose_visitors!: every sink is called, Err(Terminate) if errors is not
\* empty.
compose_visitors(results) ==
  LET done == visit_from(1, results, [invoked |-> <<>>, errors |-> <<>>]) IN
  [invoked |-> done.invoked,
   result |-> IF done.errors # <<>> THEN "Terminate" ELSE "Ok"]

\* CompositeCoinBaseWebSocketMessageHandler::new(handlers) with n sinks.
NewComposite(n) ==
  /\ hfn = "none"
  /\ handlers = 0
  /\ n > 0
  /\ handlers' = n
  /\ UNCHANGED << hcalls, hfn, hres >>
  /\ UNCHANGED << facadeVars, queue, ctl, ctlMsg, workerVars, ev, firstSent,
                  sinceAttempt, ncalls, spawned, codec >>

\* One call of method fn on the composite, results being what the sinks
\* return to it.
Dispatch(fn, results) ==
  /\ hfn' = fn
  /\ hcalls' = compose_visitors(results).invoked
  /\ hres' = [results |-> results, result |-> compose_visitors(results).result]
  /\ UNCHANGED handlers
  /\ UNCHANGED << facadeVars, queue, ctl, ctlMsg, workerVars, ev, firstSent,
                  sinceAttempt, ncalls, spawned, codec >>

(***************************************************************************)
(* common.rs: Channels and Channel on the wire (serde_json).               *)
(***************************************************************************)
\* impl ToString for Channels, and the derived Serialize with
\* rename_all = "lowercase": the variant's wire name.
to_string(name) ==
  CASE name = "Heartbeat" -> "heartbeat"
    [] name = "Status" -> "status"
    [] name = "Ticker" -> "ticker"
    [] name = "Level2" -> "level2"
    [] name = "Matches" -> "matches"
    [] name = "User" -> "user"
    [] name = "Full" -> "full"

\* The strings a wire form carries as a channel name: the seven wire names,
\* two of them in other letter cases, and a name no variant has.
WireNames ==
  {"heartbeat", "status", "ticker", "level2", "matches", "user", "full",
   "TICKER", "Level2", "bogus"}

\* str::to_lowercase on WireNames.
to_lowercase(str) ==
  CASE str = "TICKER" -> "ticker"
    [] str = "Level2" -> "level2"
    [] OTHER -> str

\* impl FromStr for Channels: Ok(variant), or Err(()) given as "".
from_str(str) ==
  LET low == to_lowercase(str) IN
  CASE low = "heartbeat" -> "Heartbeat"
    [] low = "status" -> "Status"
    [] low = "ticker" -> "Ticker"
    [] low = "level2" -> "Level2"
    [] low = "matches" -> "Matches"
    [] low = "user" -> "User"
    [] low = "full" -> "Full"
    [] OTHER -> ""

\* The JSON forms of a Channel: a string, or an object given by its keys in
\* order, the value of "name" and the array of "product_ids".
WireString(str) == [kind |-> "string", str |-> str, keys |-> <<>>, ids |-> <<>>]
WireObject(keys, str, ids) == [kind |-> "object", str |-> str, keys |-> keys, ids |-> ids]

\* Variant: an empty product_ids list is written like an absent one.
serialize_skipping_empty(ch) ==
  IF ~ch.product_ids.some \/ ch.product_ids.ids = <<>>
  THEN WireString(to_string(ch.name))
  ELSE WireObject(<<"name", "product_ids">>, to_string(ch.name), ch.product_ids.ids)

\* impl Serialize for Channel
serialize(ch) ==
  IF ~ch.product_ids.some
  THEN WireString(to_string(ch.name))
  ELSE WireObject(<<"name", "product_ids">>, to_string(ch.name), ch.product_ids.ids)

\* A deserialization that failed.
DecodeErr == [ok |-> FALSE, value |-> Channel("", None)]
DecodeOk(ch) == [ok |-> TRUE, value |-> ch]

\* ChannelVisitor::visit_str
visit_str(str) ==
  IF from_str(str) = "" THEN DecodeErr ELSE DecodeOk(Channel(from_str(str), None))

\* ChannelVisitor::visit_map: the while loop from key i on; acc holds
\* whether name and product_ids were seen, and whether a key was rejected
\* (an unknown field, or a duplicate).
RECURSIVE visit_keys(_, _, _)
visit_keys(i, keys, acc) ==
  IF i > Len(keys) \/ acc.err THEN acc
  ELSE visit_keys(i + 1, keys,
         CASE keys[i] = "name" ->
                IF acc.name THEN [acc EXCEPT !.err = TRUE] ELSE [acc EXCEPT !.name = TRUE]
           [] keys[i] = "product_ids" ->
                IF acc.ids THEN [acc EXCEPT !.err = TRUE] ELSE [acc EXCEPT !.ids = TRUE]
           [] OTHER -> [acc EXCEPT !.err = TRUE])

\* Variant: an object whose product_ids array is empty decodes like one
\* without the key.
visit_map_empty_is_absent(wire) ==
  LET seen == visit_keys(1, wire.keys, [name |-> FALSE, ids |-> FALSE, err |-> FALSE]) IN
  IF seen.err \/ ~seen.name \/ from_str(wire.str) = "" THEN DecodeErr
  ELSE DecodeOk(Channel(from_str(wire.str),
                        IF seen.ids /\ wire.ids # <<>> THEN Some(wire.ids) ELSE None))

\* ChannelVisitor::visit_map
visit_map(wire) ==
  LET seen == visit_keys(1, wire.keys, [name |-> FALSE, ids |-> FALSE, err |-> FALSE]) IN
  IF seen.err \/ ~seen.name \/ from_str(wire.str) = "" THEN DecodeErr
  ELSE DecodeOk(Channel(from_str(wire.str), IF seen.ids THEN Some(wire.ids) ELSE None))

\* impl Deserialize for Channel: deserialize_any(ChannelVisitor)
deserialize(wire) ==
  CASE wire.kind = "string" -> visit_str(wire.str)
    [] wire.kind = "object" -> visit_map(wire)
    [] OTHER -> DecodeErr

\* The Channel values encoded: every variant, product_ids absent or a list.
IdLists == { <<>>, <<"BTC-USD">>, <<"BTC-USD", "ETH-USD">>, <<"ETH-USD", "BTC-USD">>,
             <<"ETH-USD", "ETH-USD">> }
ChannelValues ==
  { Channel(n, None) : n \in Channels } \cup { Channel(n, Some(l)) : n \in Channels, l \in IdLists }

\* The wire forms decoded as they come: every name as a string, and as an
\* object under several key lists.
KeyLists ==
  { <<"name">>, <<"name", "product_ids">>, <<"product_ids", "name">>, <<"product_ids">>,
    <<"name", "name">>, <<"name", "size">>, <<>> }
WireForms ==
  { WireString(n) : n \in WireNames }
    \cup { WireObject(k, n, <<>>) : k \in KeyLists, n \in WireNames }
    \cup { WireObject(<<"name", "product_ids">>, "ticker", l) : l \in IdLists }

\* A Channel value to encode, or a wire form to decode.
InitCodecInput ==
  \/ \E ch \in ChannelValues :
       codec = [stage |-> "value", value |-> ch, wire |-> NoWire, result |-> NoResult]
  \/ \E w \in WireForms :
       codec = [stage |-> "wire", value |-> Channel("", None), wire |-> w, result |-> NoResult]

\* serde_json::to_string(&channel)
Encode ==
  /\ codec.stage = "value"
  /\ codec' = [codec EXCEPT !.stage = "encoded", !.wire = serialize(codec.value)]
  /\ UNCHANGED << facadeVars, queue, ctl, ctlMsg, workerVars, ev, firstSent,
                  sinceAttempt, ncalls, spawned, handlerVars >>

\* serde_json::from_str::<Channel>, of an encoded value ("round_trip") or of
\* a wire form as it came ("decoded").
Decode ==
  /\ codec.stage \in {"encoded", "wire"}
  /\ codec' = [codec EXCEPT !.stage = IF codec.stage = "encoded" THEN "round_trip" ELSE "decoded",
                            !.result = deserialize(codec.wire)]
  /\ UNCHANGED << facadeVars, queue, ctl, ctlMsg, workerVars, ev, firstSent,
                  sinceAttempt, ncalls, spawned, handlerVars >>

(***************************************************************************)
(* The system: the application drives the facade and the Controllers, the  *)
(* worker thread runs, the transport and the handler answer.               *)
(***************************************************************************)
\* The application's use of the facade and of the Controllers in ctls.
Application(ctls) ==
  \/ Start
  \/ StopCall
  \/ StopJoin
  \/ WaitCall
  \/ WaitJoin
  \/ DropClient
  \/ LockPanic
  \/ \E c \in ctls : NewController(c)
  \/ \E c \in ctls : DropController(c)

\* The senders that found the queue full: they go on when the send can
\* complete.  Only a behaviour with more than QueueCapacity sends has them.
BlockedSenders(ctls) ==
  \/ StopSend
  \/ \E c \in ctls : ControllerResume(c)

\* The worker thread, the socket's reads drawn from reads.
Worker(reads) ==
  \/ PollAwait
  \/ \E o \in ConnectOutcomes : ConnectStep(o)
  \/ \E o \in SendOutcomes : SubscribeSend(o)
  \/ \E h \in HandlerResults : Initialize(h)
  \/ \E o \in SendOutcomes : StepCommand(o)
  \/ StepIdle
  \/ \E f \in reads, h \in HandlerResults : Read(f, h)

\* Controller calls with arguments drawn from args.
Calls(ctls, args) ==
  \E c \in ctls, a \in args :
    \/ subscribe(c, a.product_ids, a.channels)
    \/ unsubscribe(c, a.product_ids, a.channels)

\* Spec: one Controller, up to MaxCalls calls over all of CallArgs, every
\* transport outcome; text frames of one tag beside the undecodable ones.
SpecReads ==
  { f \in ReadResults : f.kind = "Text" /\ f.body = "ok" => f.tag \in {"ticker", "bogus"} }

Next ==
  \/ Application({"k1"})
  \/ Worker(SpecReads)
  \/ ncalls < MaxCalls /\ Calls({"k1"}, CallArgs)

Spec == Init /\ [][Next]_vars

\* SpecFrames: as Spec, with every frame and read error of ReadResults, and
\* MaxFrameCalls Controller calls.
NextFrames ==
  \/ Application({"k1"})
  \/ Worker(ReadResults)
  \/ ncalls < MaxFrameCalls /\ Calls({"k1"}, CallArgs)

SpecFrames == Init /\ [][NextFrames]_vars

\* SpecTimed: one Controller, up to MaxTimedCalls calls, every transport
\* outcome and read error, and time that passes between the worker's steps.
TimedReads ==
  ErrorReads \cup { Frame("Close", "", "", 1000), Frame("Text", "ticker", "ok", 0),
                    Frame("Ping", "", "", 0) }

NextTimed ==
  \/ Application({"k1"})
  \/ Worker(TimedReads)
  \/ Tick
  \/ ncalls < MaxTimedCalls /\ Calls({"k1"}, CallArgs)

SpecTimed == Init /\ [][NextTimed]_vars

\* SpecTimedLive: SpecTimed with the worker thread scheduled: as long as the
\* thread can take a step (it has not returned or panicked) it takes one.
SpecTimedLive == SpecTimed /\ WF_vars(Worker(TimedReads))

\* SpecFlood: both Controllers, any number of calls, all with the same
\* arguments: the command queue fills up.
FloodArgs == { [product_ids |-> <<"BTC-USD">>, channels |-> <<Ticker>>] }
FloodReads == { Frame("Text", "ticker", "ok", 0), Frame("Err", "ConnectionClosed", "", 0) }

NextFlood ==
  \/ Application(Controllers)
  \/ BlockedSenders(Controllers)
  \/ Worker(FloodReads)
  \/ \E c \in Controllers, a \in FloodArgs : subscribe(c, a.product_ids, a.channels)

SpecFlood == Init /\ [][NextFlood]_vars

\* SpecChannels: one Controller, up to MaxChannelCalls calls whose channel
\* is the ticker channel without restriction or restricted to one of three
\* product-id lists, two of them the same products in another order.
ChannelArgs ==
  { [product_ids |-> <<"BTC-USD">>, channels |-> << Channel("Ticker", r) >>] :
      r \in { None, Some(<<"BTC-USD">>), Some(<<"BTC-USD", "ETH-USD">>),
              Some(<<"ETH-USD", "BTC-USD">>) } }

NextChannels ==
  \/ Application({"k1"})
  \/ Worker(FloodReads)
  \/ ncalls < MaxChannelCalls /\ Calls({"k1"}, ChannelArgs)

SpecChannels == Init /\ [][NextChannels]_vars

\* SpecEarly: Controller k1 is used only before start, Controller k2 is
\* created and used only after it; their calls differ in their arguments.
EarlyArgs == { [product_ids |-> <<"BTC-USD">>, channels |-> <<Ticker>>] }
LateArgs ==
  { [product_ids |-> <<"ETH-USD", "BTC-USD", "ETH-USD">>, channels |-> <<TickerBTC, Level2>>] }

NextEarly ==
  \/ Application({"k1"})
  \/ pc # "unspawned" /\ client \in {"live", "poisoned"} /\ NewController("k2")
  \/ DropController("k2")
  \/ Worker(FloodReads)
  \/ pc = "unspawned" /\ ncalls < MaxCalls /\ Calls({"k1"}, EarlyArgs)
  \/ pc # "unspawned" /\ ncalls < MaxCalls /\ Calls({"k2"}, LateArgs)

SpecEarly == Init /\ [][NextEarly]_vars

\* SpecCodec: Channel values encoded and decoded again, wire forms decoded.
NextCodec == Encode \/ Decode

InitSpecCodec == InitClient /\ InitHandler /\ InitCodecInput

SpecCodec == InitSpecCodec /\ [][NextCodec]_vars

\* SpecHandler: a composite handler of up to MaxSinks sinks, every method
\* dispatched with every combination of sink results.
NextHandler ==
  \/ \E n \in 1..MaxSinks : NewComposite(n)
  \/ \E fn \in HandlerMethods, results \in [1..handlers -> HandlerResults] :
       Dispatch(fn, results)

SpecHandler == Init /\ [][NextHandler]_vars

(***************************************************************************)
(* Vocabulary of the claims.                                               *)
(***************************************************************************)
\* The worker is Streaming: in its main loop with a connection established.
Streaming == pc \in {"step", "read"} /\ opt_socket # 0

\* An envelope lists exactly the elements of ids and chs, each once.
CarriesExactly(env, ids, chs) ==
  /\ DOMAIN env.product_ids = ids
  /\ DOMAIN env.channels = chs
  /\ \A x \in ids : env.product_ids[x] = 1
  /\ \A c \in chs : env.channels[c] = 1

\* A write_message call that handed over a Subscribe envelope with the whole
\* accumulated set of the moment.
FullSubscribe(w) ==
  w.env.type = "subscribe" /\ CarriesExactly(w.env, w.ids, w.chs)

\* The step just taken read a Close frame off the socket.
ReadClose == ev'.op = "read" /\ ev'.frame.kind = "Close"

\* The step just taken was the worker consuming a command of this type.
Consumed(type) == ev'.op \in {"poll_await", "step"} /\ ev'.cmd.type = type

(***************************************************************************)
(* C1.  Every Close frame read while Streaming, whatever its close code,   *)
(* sends the worker into a fresh transport connect; the worker is never    *)
(* Streaming on a socket unless the first message on that socket was a     *)
(* Subscribe envelope with the full accumulated sets, and that envelope    *)
(* was written (the write succeeded).                                      *)
(***************************************************************************)
C1_CloseResubscribes ==
  /\ [][ReadClose => pc' = "connect" /\ ctx' = "reconnect"]_vars
  /\ [][ev'.op = "connect" /\ pc' # "connect" /\ pc' # "returned"
          => pc' = "subscribe" /\ opt_socket' # opt_socket /\ opt_socket' # 0]_vars
  /\ [](Streaming => FullSubscribe(firstSent) /\ firstSent.outcome = "Ok")

\* The part of C1 the code keeps: the Subscribe envelope with the full sets
\* is always the first thing handed to write_message on a new socket.
C1_SubscribeIsFirstWrite ==
  /\ [][ReadClose => pc' = "connect" /\ ctx' = "reconnect"]_vars
  /\ [](Streaming => FullSubscribe(firstSent))

(***************************************************************************)
(* C2.  Each Subscribe command the worker consumes leaves the accumulated  *)
(* sets equal to what they were plus the command's product ids and channel *)
(* specs (so, from the empty sets, the union of everything submitted); the *)
(* envelope written for a Subscribe consumed while Streaming lists every   *)
(* element of the accumulated sets exactly once, not just the command's.   *)
(***************************************************************************)
C2_SubscribeIsCumulative ==
  [][Consumed("Subscribe") =>
       /\ \A x \in ProductUniverse :
            x \in product_ids' <=>
              x \in product_ids \/ \E i \in 1..Len(ev'.cmd.product_ids) : ev'.cmd.product_ids[i] = x
       /\ \A c \in channels \cup channels' \cup Range(ev'.cmd.channels) :
            c \in channels' <=> c \in channels \/ c \in Range(ev'.cmd.channels)
       /\ (ev'.op = "step" /\ opt_socket # 0 =>
             /\ Len(ev'.writes) = 1
             /\ ev'.writes[1].env.type = "subscribe"
             /\ CarriesExactly(ev'.writes[1].env, product_ids', channels'))
    ]_vars

C2_Witness ==
  /\ ev.op = "step"
  /\ ev.cmd = SubscribeMsg(<<"ETH-USD", "BTC-USD", "ETH-USD">>, <<TickerBTC, Level2>>)
  /\ product_ids = {"BTC-USD", "ETH-USD"}
  /\ channels = {Ticker, TickerBTC, Level2}
  /\ Len(ev.writes) = 1
  /\ ev.writes[1].outcome = "Ok"

(***************************************************************************)
(* C3.  An Unsubscribe consumed while Streaming removes from the           *)
(* accumulated sets exactly the product ids and channel specs it names;    *)
(* every Subscribe envelope written afterwards (for a later Subscribe or   *)
(* after a reconnect) lists exactly the sets as they then are, so the      *)
(* entries that remained are in it.                                        *)
(***************************************************************************)
C3_UnsubscribeRemovesOnlyNamed ==
  /\ [][ev'.op = "step" /\ ev'.cmd.type = "Unsubscribe" =>
          /\ product_ids' = { x \in product_ids : x \notin Range(ev'.cmd.product_ids) }
          /\ channels' = { c \in channels : c \notin Range(ev'.cmd.channels) }
       ]_vars
  /\ [][\A i \in 1..Len(ev'.writes) :
          ev'.writes[i].env.type = "subscribe" =>
            CarriesExactly(ev'.writes[i].env, product_ids', channels')
       ]_vars
  /\ [][(product_ids' # product_ids \/ channels' # channels) /\ pc # "unspawned" =>
          Consumed("Subscribe") \/ Consumed("Unsubscribe")]_vars

\* After Subscribe(B) and Unsubscribe(A), the Subscribe envelope of a
\* reconnect carries what remained.
C3_Witness ==
  /\ ev.op = "subscribe"
  /\ ctx = "reconnect"
  /\ product_ids = {"ETH-USD"}
  /\ channels = {TickerBTC, Level2}
  /\ ev.writes[1].outcome = "Ok"
  /\ CarriesExactly(ev.writes[1].env, {"ETH-USD"}, {TickerBTC, Level2})

(***************************************************************************)
(* C4.  A Stop consumed while the worker still awaits its first connection *)
(* makes the worker thread exit at once: it never goes on to the handler   *)
(* or to the main loop without a socket, it does not panic, and the stop() *)
(* that sent the Stop does not panic in its join.                          *)
(***************************************************************************)
C4_StopWhileAwaitingExitsCleanly ==
  /\ [][ev'.op = "poll_await" /\ ev'.cmd.type = "Stop" => pc' = "returned"]_vars
  /\ [](pc \in {"initialize", "step", "read"} => opt_socket # 0)
  /\ [](pc # "panicked")
  /\ [](apiRet # "stop_panicked")

(***************************************************************************)
(* C5.  Once the worker has terminated, no Controller call stays blocked:  *)
(* a Controller inside send can complete it (the send fails), whether or   *)
(* not the facade value still exists.                                      *)
(***************************************************************************)
C5_NoCallBlocksAfterWorkerExit ==
  WorkerExited => \A c \in Controllers : ctl[c] = "blocked" => SendOutcome # "Block"

(***************************************************************************)
(* C6.  stop() called on a Running facade whose worker thread has already  *)
(* returned does not block in its send of Stop, however full the command   *)
(* queue is, and ends with the state Stopped.                              *)
(***************************************************************************)
C6_StopAfterWorkerExitReturns ==
  /\ [][pc = "returned" /\ client = "live" /\ apiRet' = "stopping" => client' = "stop_join"]_vars
  /\ [][pc = "returned" /\ client = "stop_join" /\ client' = "gone" => state' = "Stopped"]_vars

(***************************************************************************)
(* C7.  stop() on a Running facade enqueues exactly one Stop, returns only *)
(* after the worker thread has exited, and returns normally with the state *)
(* Stopped.                                                                *)
(***************************************************************************)
C7_StopJoinsAndStops ==
  /\ [][client = "live" /\ client' \in {"stop_send", "stop_join"} =>
          /\ state = "Running"
          /\ queue' = IF client' = "stop_join" THEN Append(queue, StopMsg) ELSE queue]_vars
  /\ [][client = "stop_send" /\ client' # "stop_send" =>
          client' = "stop_join" /\ queue' = Append(queue, StopMsg)]_vars
  /\ [][client = "stop_join" /\ client' # "stop_join" =>
          /\ WorkerExited
          /\ client' = "gone"
          /\ apiRet' = "stopped"
          /\ state' = "Stopped"]_vars

(***************************************************************************)
(* C8.  A text frame that does not decode (not JSON, an unknown type tag,  *)
(* a malformed body) is dropped: no callback is invoked and the worker     *)
(* stays in its loop on the same socket with the same subscription set;    *)
(* a text frame that decodes, whatever was dropped before it, invokes the  *)
(* one callback that matches its tag.                                      *)
(***************************************************************************)
MatchingCallback(tag) == IF tag = "l2update" THEN "on_l2_update" ELSE "on_" \o tag

C8_UndecodableTextIsDropped ==
  [][ev'.op = "read" /\ ev'.frame.kind = "Text" =>
       IF ev'.frame.body = "ok" /\ ev'.frame.tag \in ResponseTags
       THEN /\ Len(ev'.calls) = 1
            /\ ev'.calls[1].fn = MatchingCallback(ev'.frame.tag)
       ELSE /\ ev'.calls = <<>>
            /\ pc' = "step"
            /\ opt_socket' = opt_socket
            /\ opt_socket' # 0
            /\ product_ids' = product_ids
            /\ channels' = channels
    ]_vars

C8_Witness ==
  /\ ev.op = "read"
  /\ ev.frame = Frame("Text", "ticker", "malformed", 0)
  /\ Streaming
  /\ pc = "step"

(***************************************************************************)
(* C9.  Every call dispatched to a composite handler invokes each of its   *)
(* sinks exactly once, in list order, whatever the earlier sinks returned, *)
(* and returns Terminate exactly when at least one sink returned Terminate *)
(* (an empty composite returns Ok).                                        *)
(***************************************************************************)
C9_CompositeCallsEverySink ==
  hfn # "none" =>
    /\ Len(hcalls) = handlers
    /\ \A i \in 1..handlers : hcalls[i] = i
    /\ hres.result \in HandlerResults
    /\ hres.result = "Terminate" <=> \E i \in 1..handlers : hres.results[i] = "Terminate"

C9_Witness ==
  /\ hfn = "on_ticker"
  /\ handlers = 3
  /\ hres.results = <<"Ok", "Terminate", "Ok">>
  /\ hcalls = <<1, 2, 3>>
  /\ hres.result = "Terminate"

(***************************************************************************)
(* C10.  When a handler callback (an event callback or initialize) returns *)
(* Terminate the worker thread returns; a worker thread that has returned  *)
(* makes no connect attempt, writes nothing and invokes no callback.       *)
(***************************************************************************)
WorkerOps == {"poll_await", "connect", "sleep", "subscribe", "initialize", "step", "read"}

C10_HandlerTerminateEndsWorker ==
  /\ [][(\E i \in 1..Len(ev'.calls) : ev'.calls[i].res = "Terminate") => pc' = "returned"]_vars
  /\ [][pc = "returned" =>
          /\ pc' = "returned"
          /\ ev'.op \notin WorkerOps
          /\ ev'.writes = <<>>
          /\ ev'.calls = <<>>]_vars

C10_Witness ==
  /\ pc = "returned"
  /\ ev.op = "read"
  /\ ev.calls = << Call("on_ticker", "Terminate") >>

(***************************************************************************)
(* C11.  A worker thread is spawned only by a start on a NotInitialized    *)
(* facade; a start in any other state panics, spawns nothing and leaves    *)
(* the worker and the state as they are; so a facade never has more than   *)
(* one worker thread.                                                      *)
(***************************************************************************)
C11_StartOnlyOnce ==
  /\ [][spawned' # spawned =>
          /\ state = "NotInitialized"
          /\ state' = "Running"
          /\ spawned' = spawned + 1
          /\ apiRet' = "started"]_vars
  /\ [][state # "NotInitialized" =>
          /\ (apiRet' = "started" => apiRet = "started")
          /\ (pc' = "await" => pc = "await")
          /\ (apiRet' = "start_panicked" /\ apiRet # "start_panicked" =>
                UNCHANGED << state, join_handle, workerVars, queue >>)]_vars
  /\ [](spawned <= 1)

C11_Witness ==
  /\ apiRet = "start_panicked"
  /\ spawned = 1
  /\ state = "Running"
  /\ WorkerAlive

(***************************************************************************)
(* C12.  The facade state only moves NotInitialized -> Running -> Stopped; *)
(* stop() or wait() on a facade that is NotInitialized or Stopped enqueues *)
(* nothing and joins nothing; the join handle is set once, taken once, and *)
(* a facade that joined its worker is gone.                                *)
(***************************************************************************)
C12_StateMovesForward ==
  /\ [][state' # state =>
          << state, state' >> \in { << "NotInitialized", "Running" >>, << "Running", "Stopped" >> }]_vars
  /\ [][client = "live" /\ client' # "live" /\ state \in {"NotInitialized", "Stopped"} =>
          /\ client' = "gone"
          /\ apiRet' \in {"noop", apiRet}
          /\ UNCHANGED << state, join_handle, queue >>]_vars
  /\ [][join_handle' # join_handle =>
          IF join_handle' THEN state = "NotInitialized" /\ spawned = 0
          ELSE state = "Running" /\ client' \in {"gone", "wait_join"}]_vars
  /\ [][client' # client /\ client \in {"stop_join", "wait_join"} =>
          WorkerExited /\ client' = "gone"]_vars
  /\ [][client = "gone" => client' = "gone"]_vars

C12_Witness ==
  /\ state = "Stopped"
  /\ apiRet = "stopped"
  /\ client = "gone"
  /\ ~join_handle
  /\ spawned = 1

(***************************************************************************)
(* C13.  The worker consumes commands in the order they were enqueued and  *)
(* each at most once: the queue changes only by an enqueue at its tail or  *)
(* by the worker taking its head, and the command a worker step handles is *)
(* the head it took.                                                       *)
(***************************************************************************)
Commands == {"Subscribe", "Unsubscribe", "Stop"}

C13_CommandsConsumedInOrder ==
  /\ [][queue' # queue =>
          \/ /\ queue # <<>>
             /\ queue' = Tail(queue)
             /\ ev'.op \in {"poll_await", "step"}
             /\ ev'.cmd = Head(queue)
          \/ /\ Len(queue') = Len(queue) + 1
             /\ SubSeq(queue', 1, Len(queue)) = queue
             /\ ev'.op \notin WorkerOps]_vars
  /\ [][ev'.op \in WorkerOps /\ ev'.cmd.type \in Commands =>
          queue # <<>> /\ ev'.cmd = Head(queue) /\ queue' = Tail(queue)]_vars
  /\ [][ev'.op \in WorkerOps /\ queue # <<>> /\ pc \in {"await", "step"} =>
          ev'.cmd = Head(queue)]_vars

C13_Witness ==
  /\ ev.op = "step"
  /\ ev.cmd = SubscribeMsg(<<"ETH-USD", "BTC-USD", "ETH-USD">>, <<TickerBTC, Level2>>)
  /\ queue = << UnsubscribeMsg(<<"BTC-USD">>, <<Ticker>>) >>
  /\ product_ids = {"BTC-USD", "ETH-USD"}
  /\ channels = {Ticker, TickerBTC, Level2}

(***************************************************************************)
(* C14.  The command queue never holds more than 10 commands; a Controller *)
(* blocks only on a full queue, its command enters the queue only once     *)
(* there is room (or its send fails, queue untouched, once no receiver is   *)
(* left), and a full queue changes only by the worker taking its head:     *)
(* nothing already enqueued is dropped or overwritten.                     *)
(***************************************************************************)
C14_QueueBoundedWithBackpressure ==
  /\ [](Len(queue) <= QueueCapacity)
  /\ [][\A c \in Controllers :
          /\ (ctl[c] = "idle" /\ ctl'[c] = "blocked" =>
                Len(queue) = QueueCapacity /\ queue' = queue)
          /\ (ctl[c] = "blocked" /\ ctl'[c] # "blocked" =>
                \/ Len(queue) < QueueCapacity /\ queue' = Append(queue, ctlMsg[c])
                \/ /\ pc \in {"unspawned", "returned", "panicked"}
                   /\ client = "gone"
                   /\ queue' = queue)]_vars
  /\ [][Len(queue) = QueueCapacity /\ queue' # queue =>
          queue' = Tail(queue) /\ ev'.op \in {"poll_await", "step"}]_vars

C14_Witness ==
  /\ Len(queue) = QueueCapacity
  /\ ctl["k1"] = "blocked"
  /\ ctl["k2"] = "blocked"
  /\ pc = "step"

(***************************************************************************)
(* C15.  wait() on a Running facade enqueues nothing: no Stop enters the   *)
(* queue at the call or while it waits; it returns only when the worker    *)
(* thread has exited, so not at all while the worker keeps running.        *)
(***************************************************************************)
InWait == client = "wait_join" \/ apiRet = "waited"

C15_WaitSendsNoStopAndJoins ==
  /\ [][client = "live" /\ client' = "wait_join" =>
          state = "Running" /\ queue' = queue /\ apiRet' = "waiting"]_vars
  /\ [](InWait => \A i \in 1..Len(queue) : queue[i].type # "Stop")
  /\ [][client = "wait_join" /\ client' # "wait_join" =>
          /\ pc \in {"returned", "panicked"}
          /\ pc' = pc
          /\ client' = "gone"
          /\ apiRet' = "waited"
          /\ queue' = queue]_vars
  /\ [](apiRet = "waited" => pc \in {"returned", "panicked"})

C15_Witness ==
  /\ apiRet = "waited"
  /\ client = "gone"
  /\ pc = "returned"
  /\ state = "Stopped"
  /\ ev.op = "app"
  /\ product_ids # {}

(***************************************************************************)
(* C16.  A command sent through a Controller before start(), on a facade   *)
(* that exists, enters the queue and stays there until the worker, once    *)
(* spawned, takes it; the commands sent before start are ahead of all      *)
(* those sent after it, and the worker takes commands from the head: one   *)
(* queue serves the Controllers created before and after start, first in   *)
(* first out.                                                              *)
(***************************************************************************)
SentEarly(msg) ==
  msg.type \in {"Subscribe", "Unsubscribe"}
    /\ \E a \in EarlyArgs : msg.product_ids = a.product_ids /\ msg.channels = a.channels

C16_EarlyCommandsAreKept ==
  /\ [][pc = "unspawned" /\ client # "gone" /\ ncalls' # ncalls =>
          /\ Len(queue') = Len(queue) + 1
          /\ SubSeq(queue', 1, Len(queue)) = queue
          /\ SentEarly(queue'[Len(queue')])]_vars
  /\ [][pc = "unspawned" /\ ncalls' = ncalls => queue' = queue]_vars
  /\ [][pc = "unspawned" /\ pc' # "unspawned" => pc' = "await" /\ queue' = queue]_vars
  /\ [](\A i, j \in 1..Len(queue) : i < j /\ SentEarly(queue[j]) => SentEarly(queue[i]))
  /\ [][Len(queue') < Len(queue) =>
          /\ queue' = Tail(queue)
          /\ ev'.op \in {"poll_await", "step"}
          /\ ev'.cmd = Head(queue)]_vars
  /\ [][pc # "unspawned" /\ (client # "gone" \/ pc \notin {"returned", "panicked"})
            /\ ncalls' # ncalls =>
          /\ Len(queue') = Len(queue) + 1
          /\ SubSeq(queue', 1, Len(queue)) = queue
          /\ ~SentEarly(queue'[Len(queue')])]_vars

C16_Witness ==
  /\ ev.op = "step"
  /\ ev.cmd = SubscribeMsg(<<"ETH-USD", "BTC-USD", "ETH-USD">>, <<TickerBTC, Level2>>)
  /\ ctl["k1"] \in {"idle", "dropped"}
  /\ ctl["k2"] \in {"idle", "dropped"}
  /\ product_ids = {"BTC-USD", "ETH-USD"}
  /\ channels = {Ticker, TickerBTC, Level2}

(***************************************************************************)
(* C17.  Every Channel value (each of the 7 names, product_ids absent or   *)
(* any list, the empty one included) decodes from its encoded form to an   *)
(* equal value; it is encoded as a bare string exactly when product_ids is *)
(* absent; and a bare string decodes to what the object with only that     *)
(* name decodes to.                                                        *)
(***************************************************************************)
C17_ChannelRoundTrip ==
  /\ codec.stage \in {"encoded", "round_trip"} =>
       (codec.wire.kind = "string" <=> ~codec.value.product_ids.some)
  /\ codec.stage = "round_trip" =>
       codec.result.ok /\ codec.result.value = codec.value
  /\ codec.stage = "decoded" /\ codec.wire.kind = "string" =>
       /\ codec.result = deserialize(WireObject(<<"name">>, codec.wire.str, <<>>))
       /\ codec.result.ok => ~codec.result.value.product_ids.some
  /\ codec.stage = "decoded" /\ codec.wire.kind = "object" /\ codec.wire.keys = <<"name">> =>
       codec.result = deserialize(WireString(codec.wire.str))

C17_Witness ==
  /\ codec.stage = "round_trip"
  /\ codec.value = Channel("Level2", Some(<<>>))
  /\ codec.wire.kind = "object"
  /\ codec.result.ok

(***************************************************************************)
(* C18.  While Streaming the worker takes a Stop only in the command poll  *)
(* of step(), as the head of the queue (everything enqueued ahead of it    *)
(* has been taken before); a read in progress ends only by read_message    *)
(* returning and takes nothing from the queue; and the step that takes the *)
(* Stop ends the worker thread: no write, no callback, no reconnect, and   *)
(* nothing queued behind the Stop is ever taken.                           *)
(***************************************************************************)
C18_StopObservedAtPoll ==
  /\ [][Streaming /\ ev'.op \in WorkerOps /\ ev'.cmd.type = "Stop" =>
          /\ pc = "step"
          /\ ev'.op = "step"
          /\ queue # <<>>
          /\ Head(queue) = StopMsg
          /\ queue' = Tail(queue)
          /\ pc' = "returned"
          /\ ev'.writes = <<>>
          /\ ev'.calls = <<>>]_vars
  /\ [][Streaming /\ pc = "step" /\ queue # <<>> /\ Head(queue) = StopMsg /\ pc' # pc =>
          pc' = "returned" /\ ev'.cmd = StopMsg]_vars
  /\ [][pc = "read" =>
          /\ Len(queue') >= Len(queue)
          /\ SubSeq(queue', 1, Len(queue)) = queue
          /\ (pc' # "read" => ev'.op = "read")]_vars
  /\ [][pc = "returned" =>
          /\ pc' = "returned"
          /\ Len(queue') >= Len(queue)
          /\ SubSeq(queue', 1, Len(queue)) = queue]_vars

C18_Witness ==
  /\ ev.op = "step"
  /\ ev.cmd = StopMsg
  /\ pc = "returned"
  /\ firstSent.outcome = "Ok"
  /\ product_ids = {"BTC-USD"}
  /\ queue = << SubscribeMsg(<<"ETH-USD", "BTC-USD", "ETH-USD">>, <<TickerBTC, Level2>>) >>

(***************************************************************************)
(* C19.  The unsubscribe envelope written for an Unsubscribe command in    *)
(* Streaming lists exactly the product ids and channels the command took   *)
(* out of the accumulated set, each once: nothing the set did not hold.    *)
(***************************************************************************)
C19_UnsubscribeEnvelopeIsDelta ==
  [][ev'.op = "step" /\ ev'.cmd.type = "Unsubscribe" /\ opt_socket # 0 =>
       /\ Len(ev'.writes) = 1
       /\ ev'.writes[1].env.type = "unsubscribe"
       /\ CarriesExactly(ev'.writes[1].env, product_ids \ product_ids', channels \ channels')
    ]_vars

\* What the code does send: the command's own vectors, as they are.
C19_UnsubscribeEnvelopeIsCommand ==
  [][ev'.op = "step" /\ ev'.cmd.type = "Unsubscribe" /\ opt_socket # 0 =>
       /\ Len(ev'.writes) = 1
       /\ ev'.writes[1].env.type = "unsubscribe"
       /\ ev'.writes[1].env.product_ids = Content(ev'.cmd.product_ids)
       /\ ev'.writes[1].env.channels = Content(ev'.cmd.channels)
    ]_vars

(***************************************************************************)
(* C20.  After the first Subscribe taken while awaiting the first          *)
(* connection, the worker goes on to the handler's initialize and to       *)
(* Streaming only if connect() returned a socket and the Subscribe         *)
(* envelope was written successfully; a failed connect() or a failed write *)
(* ends the worker thread, with no further connect.                        *)
(***************************************************************************)
C20_BootstrapFailureIsTerminal ==
  /\ [][ctx = "bootstrap" /\ ev'.op = "connect" /\ pc' # "connect" =>
          IF ev'.frame.tag = "Ok" THEN pc' = "subscribe" /\ opt_socket' # 0
          ELSE pc' = "returned"]_vars
  /\ [][ctx = "bootstrap" /\ ev'.op = "subscribe" =>
          /\ Len(ev'.writes) = 1
          /\ FullSubscribe(ev'.writes[1])
          /\ IF ev'.writes[1].outcome = "Ok" THEN pc' = "initialize" ELSE pc' = "returned"]_vars
  /\ [](pc = "initialize" /\ product_ids # {} => opt_socket # 0 /\ firstSent.outcome = "Ok")

\* What the code does keep: the worker leaves the bootstrap only through a
\* connect() that returned a socket and a Subscribe envelope handed to
\* write_message, and it never connects again after a classified failure.
C20_BootstrapClassifiedFailureIsTerminal ==
  /\ [][ctx = "bootstrap" /\ ev'.op = "connect" /\ pc' # "connect" =>
          IF ev'.frame.tag = "Ok" THEN pc' = "subscribe" /\ opt_socket' # 0
          ELSE pc' = "returned"]_vars
  /\ [][ctx = "bootstrap" /\ ev'.op = "subscribe" =>
          /\ Len(ev'.writes) = 1
          /\ FullSubscribe(ev'.writes[1])
          /\ IF ev'.writes[1].outcome \in {"Ok", "Other"} THEN pc' = "initialize"
             ELSE pc' = "returned"]_vars

\* C21: after bootstrap, an already-closed or I/O-layer error of a socket
\* read, or of the send a command leads to in step(), does not terminate the
\* worker: it keeps the subscription set the command left, re-enters
\* connect(), and after the successful connect, which replaces the socket,
\* the next write is a Subscribe envelope with exactly the accumulated set.
ReconnectErrors == {"AlreadyClosed", "Io"}

C21_ReconnectErrorResubscribes ==
  [][/\ ( /\ ev'.op = "read"
          /\ ev'.frame.kind = "Err"
          /\ ev'.frame.tag \in ReconnectErrors )
        => /\ pc' = "connect"
           /\ ctx' = "reconnect"
           /\ UNCHANGED << product_ids, channels, queue >>
     /\ ( /\ ev'.op = "step"
          /\ Len(ev'.writes) = 1
          /\ ev'.writes[1].outcome \in ReconnectErrors )
        => /\ pc' = "connect"
           /\ ctx' = "reconnect"
     /\ ( /\ ctx = "reconnect"
          /\ ev'.op = "connect"
          /\ ev'.frame.tag = "Ok" )
        => /\ pc' = "subscribe"
           /\ opt_socket' \notin {0, opt_socket}
           /\ UNCHANGED << product_ids, channels >>
     /\ ( /\ ctx = "reconnect"
          /\ ev'.op = "subscribe" )
        => /\ Len(ev'.writes) = 1
           /\ FullSubscribe(ev'.writes[1])
           /\ CarriesExactly(ev'.writes[1].env, product_ids, channels)
           /\ UNCHANGED << product_ids, channels >>
  ]_vars

\* C21 witness: an I/O-layer read error on the socket of an earlier
\* reconnect sent the worker, subscribed to both products, back to connect().
C21_Witness ==
  /\ ev.op = "read"
  /\ ev.frame = Frame("Err", "Io", "", 0)
  /\ pc = "connect"
  /\ ctx = "reconnect"
  /\ opt_socket = 2
  /\ product_ids = {"BTC-USD", "ETH-USD"}

\* C21 as worded: no already-closed or I/O-layer error of any send after
\* bootstrap, the re-subscribe send of a reconnect included, terminates the
\* worker.
C21_NoSendErrorTerminates ==
  [][( /\ ev'.op \in {"step", "subscribe"}
       /\ ctx' = "reconnect"
       /\ Len(ev'.writes) = 1
       /\ ev'.writes[1].outcome \in ReconnectErrors )
     => pc' # "returned"]_vars


\* C22: in a reconnect, a connect that ends with the explicitly-closed error
\* and a re-subscribe send that fails with a Reconnect- or Terminal-class
\* error each end the worker thread at that step; no further connect is made.
ClassifiedErrors == {"ConnectionClosed", "AlreadyClosed", "Io"}

C22_FailedReconnectTerminates ==
  [][/\ ( /\ ctx = "reconnect"
          /\ ev'.op = "connect"
          /\ ev'.frame.tag = "ConnectionClosed" )
        => pc' = "returned" /\ opt_socket' = 0
     /\ ( /\ ctx = "reconnect"
          /\ ev'.op = "subscribe"
          /\ ev'.writes[1].outcome \in ClassifiedErrors )
        => pc' = "returned" /\ opt_socket' = 0
     /\ pc = "returned" => pc' = "returned" /\ ev'.op \notin WorkerOps
  ]_vars

\* C22 witness: the re-subscribe of a reconnect failed with an I/O-layer
\* error and the worker thread has ended.
C22_Witness ==
  /\ ctx = "reconnect"
  /\ ev.op = "subscribe"
  /\ ev.writes[1].outcome = "Io"
  /\ pc = "returned"


\* C23: a read error or a send error of step() that is neither
\* explicitly-closed, already-closed nor I/O-layer changes nothing: the
\* worker stays in the main loop with the same socket, the subscription set
\* is the one the command (if any) left, no callback runs, and the next
\* thing the worker does is the next poll of the queue.
C23_UnclassifiedErrorIsIgnored ==
  [][/\ ( /\ ev'.op = "read"
          /\ ev'.frame.kind = "Err"
          /\ ev'.frame.tag \notin ClassifiedErrors )
        => /\ pc' = "step"
           /\ ev'.calls = <<>>
           /\ UNCHANGED << opt_socket, product_ids, channels, ctx, queue >>
     /\ ( /\ ev'.op = "step"
          /\ Len(ev'.writes) = 1
          /\ ev'.writes[1].outcome \notin ClassifiedErrors \cup {"Ok"} )
        => /\ pc' = "step"
           /\ ev'.calls = <<>>
           /\ UNCHANGED << opt_socket, ctx >>
           /\ product_ids' = IF ev'.cmd.type = "Subscribe"
                             THEN product_ids \cup Range(ev'.cmd.product_ids)
                             ELSE product_ids \ Range(ev'.cmd.product_ids)
           /\ channels' = IF ev'.cmd.type = "Subscribe"
                          THEN channels \cup Range(ev'.cmd.channels)
                          ELSE channels \ Range(ev'.cmd.channels)
  ]_vars

\* C23 witness: an unclassified read error on the socket of a reconnect left
\* the worker, subscribed to both products, at the next poll.
C23_Witness ==
  /\ ev.op = "read"
  /\ ev.frame = Frame("Err", "Other", "", 0)
  /\ pc = "step"
  /\ opt_socket = 2
  /\ product_ids = {"BTC-USD", "ETH-USD"}


\* C24: every transport connect attempt that is not the worker's first one
\* is made more than 500 ms (ConnectIntervalTicks ticks) after the attempt
\* before it, also when that attempt succeeded; the frame of a connect event
\* carries the time since the previous attempt, -1 when there was none.
C24_ConnectAttemptsAreSpaced ==
  [][ev'.op = "connect"
       => ev'.frame.code = -1 \/ ev'.frame.code > ConnectIntervalTicks]_vars


\* C25: connect() is left only by a successful transport connect, towards
\* the Subscribe send, or by the explicitly-closed error, which ends the
\* thread; after any other error it records the time and stays in its loop.
\* While the worker is in connect() no command leaves the queue, a Stop
\* included.
C25_ConnectReturnsOnlyOnSuccessOrClosed ==
  [][pc = "connect"
       => /\ Len(queue') >= Len(queue)
          /\ \A i \in 1..Len(queue) : queue'[i] = queue[i]
          /\ pc' # "connect"
               => /\ ev'.op = "connect"
                  /\ \/ ev'.frame.tag = "Ok" /\ pc' = "subscribe" /\ opt_socket' # 0
                     \/ ev'.frame.tag = "ConnectionClosed" /\ pc' = "returned"
          /\ ( ev'.op = "connect" /\ ev'.frame.tag \notin {"Ok", "ConnectionClosed"} )
               => /\ pc' = "connect"
                  /\ last_connect_time' = 0
                  /\ UNCHANGED << opt_socket, product_ids, channels >>
          /\ ev'.op = "sleep" => pc' = "connect" /\ last_connect_time # -1
  ]_vars

\* C25 witness: the facade's stop() has sent Stop and waits in join while the
\* worker, a failed attempt behind it, is still in connect() with the Stop
\* at the head of the queue.
C25_Witness ==
  /\ pc = "connect"
  /\ last_connect_time >= 0
  /\ queue # <<>>
  /\ Head(queue).type = "Stop"
  /\ client = "stop_join"
  /\ ev.op = "sleep"


\* C26: an Unsubscribe that the worker consumes while it waits for its
\* first connection is dropped: the subscription set, the (absent) socket
\* and the connect timer are unchanged, nothing is written, no connect is
\* started and the worker keeps polling.
C26_EarlyUnsubscribeIsIgnored ==
  [][( ev'.op = "poll_await" /\ ev'.cmd.type = "Unsubscribe" )
       => /\ pc' = "await"
          /\ queue' = Tail(queue)
          /\ ev'.writes = <<>>
          /\ ev'.calls = <<>>
          /\ opt_socket' = 0
          /\ UNCHANGED << product_ids, channels, ctx, firstSent, last_connect_time,
                          sinceAttempt >>
  ]_vars

\* C26 witness: the worker dropped an Unsubscribe of two products with its
\* set still empty and no connect attempt made, a Subscribe queued behind.
C26_Witness ==
  /\ ev.op = "poll_await"
  /\ ev.cmd.type = "Unsubscribe"
  /\ Len(ev.cmd.product_ids) = 3
  /\ pc = "await"
  /\ product_ids = {}
  /\ sinceAttempt = -1
  /\ queue # <<>>
  /\ Head(queue).type = "Subscribe"


\* C27: a poll of the empty queue made when the facade and every Controller
\* are gone reports Disconnected, and the worker's thread ends at that very
\* poll, while it waits for the first connection as well as in the main
\* loop: nothing is written, no callback runs and no connect follows.
ProducersGone ==
  client = "gone" /\ \A c \in Controllers : ctl[c] \notin {"idle", "blocked"}

C27_DisconnectedQueueTerminates ==
  [][/\ ( ev'.op \in {"poll_await", "step"} /\ queue = <<>> )
        => ( ev'.cmd.type = "Disconnected" <=> ProducersGone )
     /\ ( ev'.op \in {"poll_await", "step"} /\ ev'.cmd.type = "Disconnected" )
        => /\ pc' = "returned"
           /\ opt_socket' = 0
           /\ ev'.writes = <<>>
           /\ ev'.calls = <<>>
           /\ UNCHANGED << product_ids, channels, ctx, sinceAttempt >>
  ]_vars

\* C27 witness: the main loop, on the socket of a reconnect, polled the
\* queue after the facade and the Controller were dropped, and ended.
C27_Witness ==
  /\ ev.op = "step"
  /\ ev.cmd.type = "Disconnected"
  /\ ctx = "reconnect"
  /\ product_ids # {}
  /\ pc = "returned"

\* C27 witness, first phase: the worker that no Subscribe ever reached
\* ended at a poll made after every producer was dropped.
C27_WitnessAwait ==
  /\ ev.op = "poll_await"
  /\ ev.cmd.type = "Disconnected"
  /\ pc = "returned"


\* C28: whatever a socket read returns, at most one handler callback runs
\* for it; a text frame that decodes runs the one callback of its tag and no
\* other; a Ping, Pong or Binary frame runs none and leaves the socket, the
\* subscription set, the queue and the worker's place in the main loop as
\* they were.
C28_OneCallbackPerFrame ==
  [][ev'.op = "read"
       => /\ Len(ev'.calls) <= 1
          /\ ( ev'.frame.kind = "Text" /\ ev'.frame.body = "ok" /\ ev'.frame.tag \in ResponseTags )
               => /\ Len(ev'.calls) = 1
                  /\ ev'.calls[1].fn = MatchingCallback(ev'.frame.tag)
                  /\ ev'.calls[1].fn \in HandlerMethods \ {"initialize", "close"}
          /\ ev'.frame.kind \in {"Ping", "Pong", "Binary"}
               => /\ ev'.calls = <<>>
                  /\ ev'.writes = <<>>
                  /\ pc' = "step"
                  /\ opt_socket' # 0
                  /\ UNCHANGED << opt_socket, product_ids, channels, ctx, queue >>
  ]_vars

\* C28 witness: a Binary frame was read and the worker is back at the poll
\* of its main loop with its socket.
C28_Witness ==
  /\ ev.op = "read"
  /\ ev.frame.kind = "Binary"
  /\ pc = "step"
  /\ opt_socket # 0
  /\ product_ids # {}

\* C28 witness, text frame: an l2update frame ran on_l2_update, once.
C28_WitnessText ==
  /\ ev.op = "read"
  /\ ev.frame = Frame("Text", "l2update", "ok", 0)
  /\ ev.calls = << Call("on_l2_update", "Ok") >>
  /\ pc = "step"


\* C29: one pass of the main loop either consumes exactly one command, the
\* oldest, and reads nothing, or makes exactly one socket read and consumes
\* no command; the blocking read starts only after the poll of that pass
\* found the queue empty.
C29_StepIsOneCommandOrOneRead ==
  [][/\ ( pc = "step" /\ pc' = "read" )
        => /\ queue = <<>>
           /\ ev'.op = "step"
           /\ ev'.cmd.type = "Empty"
           /\ UNCHANGED queue
     /\ ( ev'.op = "step" /\ queue # <<>> )
        => /\ ev'.cmd = Head(queue)
           /\ queue' = Tail(queue)
           /\ pc' # "read"
           /\ ev'.calls = <<>>
           /\ ev'.frame = NoFrame
           /\ Len(ev'.writes) <= 1
     /\ ev'.op = "read"
        => /\ pc = "read"
           /\ pc' # "read"
           /\ ev'.cmd = NoMsg
           /\ ev'.writes = <<>>
           /\ UNCHANGED queue
  ]_vars

\* C29 witness: a read returned a text frame while a command, sent during
\* the blocking read, waits in the queue for the next pass.
C29_Witness ==
  /\ ev.op = "read"
  /\ ev.frame.kind = "Text"
  /\ pc = "step"
  /\ queue # <<>>
  /\ Head(queue).type = "Unsubscribe"


\* C30: the accumulated subscription set is empty until the worker has
\* consumed a command, and a step changes it only if that step is the
\* worker consuming a Subscribe (in either phase) or an Unsubscribe (in the
\* main loop); reads, transport errors, connects, re-subscribes and every
\* facade or Controller call leave it as it is.
C30_SetChangesOnlyOnCommands ==
  [][/\ pc \in {"unspawned", "await"} => product_ids = {} /\ channels = {}
     /\ pc = "unspawned" => product_ids' = {} /\ channels' = {}
     /\ << product_ids, channels >>' # << product_ids, channels >>
        => /\ ev'.op \in {"poll_await", "step"}
           /\ ev'.cmd.type \in {"Subscribe", "Unsubscribe"}
           /\ queue # <<>>
           /\ ev'.cmd = Head(queue)
     /\ ev'.op \in {"connect", "sleep", "subscribe", "initialize", "read", "app", "tick"}
        => UNCHANGED << product_ids, channels >>
  ]_vars

\* C30 witness: after a Close frame, a reconnect and its re-subscribe the
\* worker still holds both products and both channels.
C30_Witness ==
  /\ ev.op = "subscribe"
  /\ ctx = "reconnect"
  /\ opt_socket = 2
  /\ product_ids = {"BTC-USD", "ETH-USD"}
  /\ Cardinality(channels) = 3
  /\ pc = "step"


\* C31: a Channel is written as a bare string exactly when its product_ids
\* is None; one whose product_ids is Some of the empty list is written as an
\* object with the keys name and product_ids and an empty array, and that
\* object, like every object with a product_ids key and an empty array that
\* decodes at all, decodes to Some of the empty list, never to None.
HasKey(keys, k) == \E i \in 1..Len(keys) : keys[i] = k

C31_EmptyListIsNotAbsent ==
  /\ codec.stage \in {"encoded", "round_trip"} =>
       /\ codec.value.product_ids = None <=> codec.wire.kind = "string"
       /\ codec.value.product_ids # None <=> codec.wire.kind = "object"
       /\ codec.value.product_ids = Some(<<>>) =>
            /\ codec.wire.keys = <<"name", "product_ids">>
            /\ codec.wire.ids = <<>>
  /\ codec.stage = "round_trip" /\ codec.value.product_ids = Some(<<>>) =>
       /\ codec.result.ok
       /\ codec.result.value.name = codec.value.name
       /\ codec.result.value.product_ids.some
       /\ codec.result.value.product_ids.ids = <<>>
  /\ ( /\ codec.stage = "decoded"
       /\ codec.wire.kind = "object"
       /\ HasKey(codec.wire.keys, "product_ids")
       /\ codec.wire.ids = <<>>
       /\ codec.result.ok ) =>
       codec.result.value.product_ids = Some(<<>>)

\* C31 witness: the ticker channel restricted to no product came back from
\* its object form with the empty list.
C31_Witness ==
  /\ codec.stage = "round_trip"
  /\ codec.value = Channel("Ticker", Some(<<>>))
  /\ codec.wire = WireObject(<<"name", "product_ids">>, "ticker", <<>>)
  /\ codec.result = DecodeOk(Channel("Ticker", Some(<<>>)))


\* C32: the handler's initialize runs only after the initial connect and
\* the initial Subscribe send have succeeded: when it runs the worker holds
\* a socket and the first write on it was a Subscribe that went through.
C32_InitializeAfterSubscribed ==
  [][ev'.op = "initialize"
       => /\ opt_socket # 0
          /\ firstSent # NoSend
          /\ firstSent.env.type = "subscribe"
          /\ firstSent.outcome = "Ok"]_vars

\* C32, the part about order and number: initialize runs before any event
\* callback, in the bootstrap context only, and the worker never comes back
\* to the place where it runs, a reconnect included.
C32_InitializeOnceBeforeCallbacks ==
  [][/\ ev'.op = "initialize"
        => /\ pc = "initialize"
           /\ pc' \in {"step", "returned"}
           /\ ctx = "bootstrap"
           /\ ev'.calls = << Call("initialize", ev'.calls[1].res) >>
     /\ ( ev'.op # "initialize" /\ ev'.calls # <<>> )
        => /\ pc = "read"
           /\ \A i \in 1..Len(ev'.calls) : ev'.calls[i].fn # "initialize"
     /\ ( pc \in {"step", "read", "returned", "panicked"} \/ ctx = "reconnect" )
        => /\ pc' \notin {"await", "initialize"}
           /\ ctx' \in {ctx, "reconnect"}
     /\ ( pc' = "initialize" /\ pc # "initialize" )
        => ( pc = "await" \/ (pc = "subscribe" /\ ctx = "bootstrap") )
  ]_vars


\* C33: every step at which the worker reads from the socket or sends on it
\* (the Subscribe after a connect, the send a Subscribe or Unsubscribe
\* command leads to in step(), the blocking read an empty poll starts) finds
\* a socket in opt_socket; the unwrap of opt_socket never fails.
C33_SocketPresentAtReadAndSend ==
  [][/\ ( ev'.op \in {"subscribe", "read"} ) => opt_socket # 0
     /\ ( ev'.op = "step" /\ ev'.cmd.type \in {"Subscribe", "Unsubscribe", "Empty"} )
        => /\ opt_socket # 0
           /\ pc' # "panicked"
  ]_vars


\* C34: once the worker has consumed a Subscribe command in its main loop,
\* on a socket, the worker thread ends or a Subscribe envelope that lists
\* the command's product ids and channels is written with success.
SubscribeConsumedInLoop(a) ==
  /\ ev.op = "step"
  /\ ev.cmd.type = "Subscribe"
  /\ ev.cmd.product_ids = a.product_ids
  /\ ev.cmd.channels = a.channels
  /\ ev.writes # <<>>

SubscribeWritten(a) ==
  /\ ev.writes # <<>>
  /\ ev.writes[1].outcome = "Ok"
  /\ ev.writes[1].env.type = "subscribe"
  /\ Range(a.product_ids) \subseteq DOMAIN ev.writes[1].env.product_ids
  /\ Range(a.channels) \subseteq DOMAIN ev.writes[1].env.channels

C34_ConsumedSubscribeIsWritten ==
  \A a \in CallArgs :
    SubscribeConsumedInLoop(a) ~> (WorkerExited \/ SubscribeWritten(a))


\* C35: no step of the worker invokes the handler's close; in particular
\* the step at which the worker thread ends, whatever ends it (a Stop, a
\* terminal transport error, the handler's Terminate, a failed bootstrap or
\* reconnect, a disconnected queue), invokes at most the callback that
\* asked for the end and never close.
C35_CloseIsNeverCalled ==
  [][/\ \A i \in 1..Len(ev'.calls) : ev'.calls[i].fn # "close"
     /\ ( WorkerAlive /\ pc' \in {"returned", "panicked"} )
        => /\ ev'.op \in WorkerOps
           /\ Len(ev'.calls) <= 1
           /\ ev'.calls # <<>> => ev'.calls[1].res = "Terminate"
  ]_vars

\* C35 witness: the handler answered an error message with Terminate and
\* the worker thread ended with that one callback invoked.
C35_Witness ==
  /\ pc = "returned"
  /\ ev.op = "read"
  /\ ev.calls = << Call("on_error", "Terminate") >>
  /\ opt_socket = 0


\* C36: a reconnect made when Unsubscribe commands have emptied the
\* accumulated set goes on, after the successful connect, to the Subscribe
\* send like any other, and what it writes is one Subscribe envelope whose
\* product_ids and channels lists are empty.
C36_EmptySetIsResubscribed ==
  [][( ctx = "reconnect" /\ product_ids = {} /\ channels = {} )
       => /\ ( ev'.op = "connect" /\ ev'.frame.tag = "Ok" )
               => pc' = "subscribe" /\ opt_socket' # 0
          /\ pc = "subscribe"
               => /\ ev'.op \in WorkerOps => ev'.op = "subscribe"
                  /\ ev'.op = "subscribe"
                       => /\ Len(ev'.writes) = 1
                          /\ ev'.writes[1].env.type = "subscribe"
                          /\ DOMAIN ev'.writes[1].env.product_ids = {}
                          /\ DOMAIN ev'.writes[1].env.channels = {}
  ]_vars

\* C36 witness: after a Subscribe and an Unsubscribe of the same products
\* and channels, a reconnect wrote its Subscribe envelope with success and
\* the worker reads on the new socket with an empty set.
C36_Witness ==
  /\ ev.op = "subscribe"
  /\ ctx = "reconnect"
  /\ product_ids = {}
  /\ channels = {}
  /\ ev.writes[1].env = Envelope("subscribe", <<>>, <<>>)
  /\ ev.writes[1].outcome = "Ok"
  /\ pc = "step"
  /\ opt_socket = 2


\* C37: an Unsubscribe consumed in the main loop removes a stored channel
\* only if it lists a channel with the same name and the same product_ids
\* restriction, the order of the list included: a stored channel stays when
\* the command names it with another restriction, with none, or with the
\* same products in another order, and goes when the command lists it as
\* it is stored.
SameChannel(a, b) ==
  /\ a.name = b.name
  /\ a.product_ids.some = b.product_ids.some
  /\ Len(a.product_ids.ids) = Len(b.product_ids.ids)
  /\ \A i \in 1..Len(a.product_ids.ids) : a.product_ids.ids[i] = b.product_ids.ids[i]

C37_UnsubscribeMatchesByValue ==
  [][( ev'.op = "step" /\ ev'.cmd.type = "Unsubscribe" )
       => \A c \in channels :
            c \in channels'
              <=> \A i \in 1..Len(ev'.cmd.channels) : ~SameChannel(c, ev'.cmd.channels[i])
  ]_vars

\* C37 witness: the worker, subscribed to the ticker channel restricted to
\* <<BTC-USD, ETH-USD>>, consumed an Unsubscribe of the ticker channel
\* restricted to <<ETH-USD, BTC-USD>> and still holds the stored channel.
C37_Witness ==
  /\ ev.op = "step"
  /\ ev.cmd.type = "Unsubscribe"
  /\ ev.cmd.channels = << Channel("Ticker", Some(<<"ETH-USD", "BTC-USD">>)) >>
  /\ channels = { Channel("Ticker", Some(<<"BTC-USD", "ETH-USD">>)) }
  /\ pc = "step"

\* C37 witness, unrestricted against restricted: an Unsubscribe of the
\* unrestricted ticker channel left the restricted one stored.
C37_WitnessUnrestricted ==
  /\ ev.op = "step"
  /\ ev.cmd.type = "Unsubscribe"
  /\ ev.cmd.channels = << Channel("Ticker", None) >>
  /\ channels = { Channel("Ticker", Some(<<"BTC-USD">>)) }

\* C37 witness, restricted against unrestricted: an Unsubscribe of the
\* restricted ticker channel left the unrestricted one stored.
C37_WitnessRestricted ==
  /\ ev.op = "step"
  /\ ev.cmd.type = "Unsubscribe"
  /\ ev.cmd.channels = << Channel("Ticker", Some(<<"BTC-USD">>)) >>
  /\ channels = { Channel("Ticker", None) }

=============================================================================
